---- MODULE Spec2Model ----
(***************************************************************************)
(* Warehouse cold-storage monitoring: the alert classifier of the          *)
(* dashboard pages, the zone performance scorer, the cost estimator and    *)
(* the sensor-stream generator.                                            *)
(*                                                                         *)
(* Numbers.  Temperatures and humidities are fixed-point integers in       *)
(* hundredths (the generator rounds every value to two decimals), times    *)
(* are seconds, scores are tenths of a point, money is counted in whole    *)
(* fractions of a dollar (MoneyUnit).  NaN is a distinguished value with   *)
(* the comparison semantics of a float NaN.                                *)
(***************************************************************************)
EXTENDS Integers, Sequences, FiniteSets, TLC

VARIABLES
    \* a page run of the classifier
    page,          \* the page whose apply_custom_alert_logic runs
    config,        \* the threshold configuration passed to it
    df,            \* the frame of readings passed to it
    enhanced_df,   \* the frame it returned
    cpc,           \* position of the page run
    \* a run of the overview page
    spage,         \* which version of the overview page runs
    stream,        \* the frame load_all_zones_data returned
    now,           \* datetime.now() of the run, in seconds
    zone_id,       \* the zone of the last call of the scorer
    score,         \* what that call returned: <<>> for None, else <<ZoneScore>>
    spc,           \* position of the overview run
    summaries,     \* what get_zone_summary returned for the zones done so far
    zone_scores,   \* zone_scores of create_performance_dashboard
    cost_analysis, \* what calculate_cost_impact_metrics returned
    \* the generator process
    file,          \* the CSV file at FILE_PATH
    old_rows,      \* how many rows of the file were there before the generator started
    hour,          \* datetime.now().hour
    clock,         \* datetime.now() in seconds
    last_values,   \* last_values of main
    new_data,      \* new_data of main
    cycles,        \* iterations of the main loop so far
    gpc,           \* position of the generator in main
    \* the Z3-Produce page
    acknowledged_alerts, \* st.session_state.acknowledged_alerts
    active_alerts_df,    \* active_alerts_df of the last draw_dashboard
    apc                  \* position of the Z3-Produce page script

cvars == <<page, config, df, enhanced_df, cpc>>
svars == <<spage, stream, now, zone_id, score, spc>>
dvars == <<summaries, zone_scores, cost_analysis>>
gvars == <<file, old_rows, hour, clock, last_values, new_data, cycles, gpc>>
avars == <<acknowledged_alerts, active_alerts_df, apc>>
vars == <<cvars, svars, dvars, gvars, avars>>

\* hundredths per unit: round(x, 2)
Scale == 100

\* the float NaN / a missing CSV field
NaN == -9999999

IsNaN(x) == x = NaN

Min2(a, b) == IF a < b THEN a ELSE b
Max2(a, b) == IF a > b THEN a ELSE b
Abs(x) == IF x < 0 THEN -x ELSE x

Zones == <<"Z1-Freezer", "Z2-Chiller", "Z3-Produce", "Z4-Pharma">>
ZoneSet == {Zones[i] : i \in 1..4}

(***************************************************************************)
(* ALERT CLASSIFIER (apply_custom_alert_logic of every page)               *)
(***************************************************************************)

\* the pages that classify readings
ClassifierPages == {"Overview", "Z1-Freezer", "Z2-Chiller", "Z3-Produce", "Z4-Pharma"}

SensitivityLevels == {"Low", "Medium", "High", "Critical"}

\* twice the multiple of warning_buffer beyond which a reading is critical:
\* warning_buffer * 2 on Overview and Z1..Z3, warning_buffer * 1.5 on Z4-Pharma
CriticalFactorX2Uniform(pg) == 4
CriticalFactorX2(pg) == IF pg = "Z4-Pharma" THEN 3 ELSE 4

\* the nested calculate_alert_status(temp, humidity): humidity is accepted
\* and never read
calculate_alert_status_swapped(pg, cfg, temp, humidity) ==
    LET k2 == CriticalFactorX2(pg)
        b  == cfg.warning_buffer
    IN  IF 2 * temp < 2 * cfg.temp_min - k2 * b \/ 2 * temp > 2 * cfg.temp_max + k2 * b
        THEN "critical"
        ELSE IF temp < cfg.temp_min - b \/ temp > cfg.temp_max + b
        THEN "warning"
        ELSE IF temp < cfg.temp_min \/ temp > cfg.temp_max
        THEN "alert"
        ELSE "normal"
calculate_alert_status_dip(pg, cfg, temp, humidity) ==
    LET k2 == CriticalFactorX2(pg)
        b  == cfg.warning_buffer
    IN  IF 2 * temp < 2 * cfg.temp_min - k2 * b \/ 2 * temp > 2 * cfg.temp_max + k2 * b
        THEN "normal"
        ELSE IF temp < cfg.temp_min - b \/ temp > cfg.temp_max + b
        THEN "alert"
        ELSE IF temp < cfg.temp_min \/ temp > cfg.temp_max
        THEN "warning"
        ELSE "normal"
calculate_alert_status_humid(pg, cfg, temp, humidity) ==
    LET k2 == CriticalFactorX2(pg)
        b  == cfg.warning_buffer
    IN  IF 2 * temp < 2 * cfg.temp_min - k2 * b \/ 2 * temp > 2 * cfg.temp_max + k2 * b
        THEN "critical"
        ELSE IF temp < cfg.temp_min - b \/ temp > cfg.temp_max + b
        THEN "alert"
        ELSE IF temp < cfg.temp_min \/ temp > cfg.temp_max
        THEN "warning"
        ELSE IF ~IsNaN(humidity) /\ (humidity < cfg.humidity_min \/ humidity > cfg.humidity_max)
        THEN "warning"
        ELSE "normal"
calculate_alert_status(pg, cfg, temp, humidity) ==
    LET k2 == CriticalFactorX2(pg)
        b  == cfg.warning_buffer
    IN  IF 2 * temp < 2 * cfg.temp_min - k2 * b \/ 2 * temp > 2 * cfg.temp_max + k2 * b
        THEN "critical"
        ELSE IF temp < cfg.temp_min - b \/ temp > cfg.temp_max + b
        THEN "alert"
        ELSE IF temp < cfg.temp_min \/ temp > cfg.temp_max
        THEN "warning"
        ELSE "normal"

\* sensitivity_mapping and the default of sensitivity_mapping.get(...)
DefaultTriggers(pg) ==
    IF pg = "Z4-Pharma" THEN {"critical", "alert", "warning"} ELSE {"critical", "alert"}
sensitivity_mapping_flat(pg, sensitivity) ==
    IF sensitivity \in SensitivityLevels THEN {"critical", "alert"} ELSE DefaultTriggers(pg)
sensitivity_mapping_reversed(pg, sensitivity) ==
    CASE sensitivity = "Low"      -> {"critical", "alert", "warning"}
      [] sensitivity = "Medium"   -> {"critical", "alert"}
      [] sensitivity = "High"     -> {"critical"}
      [] sensitivity = "Critical" -> {"critical"}
      [] OTHER                    -> DefaultTriggers(pg)
sensitivity_mapping(pg, sensitivity) ==
    CASE sensitivity = "Low"      -> {"critical"}
      [] sensitivity = "Medium"   -> {"critical", "alert"}
      [] sensitivity = "High"     -> {"critical", "alert", "warning"}
      [] sensitivity = "Critical" -> {"critical", "alert", "warning"}
      [] OTHER                    -> DefaultTriggers(pg)

\* one row of enhanced_df: the input row plus the two derived columns
ClassifyRow(pg, cfg, row) ==
    LET status == calculate_alert_status(pg, cfg, row.temperature, row.humidity)
    IN  [timestamp |-> row.timestamp, zone_id |-> row.zone_id,
         temperature |-> row.temperature, humidity |-> row.humidity,
         custom_alert_status |-> status,
         alert_status |-> IF status \in sensitivity_mapping(pg, cfg.alert_sensitivity)
                          THEN "alert" ELSE "normal"]

\* apply_custom_alert_logic(df, config): an empty frame is returned as it is,
\* there is no validation of config
apply_custom_alert_logic(pg, frame, cfg) ==
    IF frame = <<>> THEN frame
    ELSE [i \in 1..Len(frame) |-> ClassifyRow(pg, cfg, frame[i])]

\* setup_threshold_configuration(zone_id) of Overview.py: the configuration
\* the overview page classifies a zone's readings with before it scores them
setup_threshold_configuration_earlier(zone) ==
    LET defaults ==
            CASE zone = "Z1-Freezer" -> <<-2200, -1800, 5000, 7000>>
              [] zone = "Z2-Chiller" -> <<200, 400, 7000, 8000>>
              [] zone = "Z3-Produce" -> <<800, 1200, 8000, 9500>>
              [] zone = "Z4-Pharma"  -> <<-500, -200, 5000, 6000>>
              [] OTHER               -> <<200, 500, 7000, 8000>>
    IN  [temp_min |-> defaults[1], temp_max |-> defaults[2], warning_buffer |-> 150,
         humidity_min |-> defaults[3], humidity_max |-> defaults[4],
         alert_sensitivity |-> "Medium", data_quality_threshold |-> 95]
setup_threshold_configuration(zone) ==
    LET defaults ==
            CASE zone = "Z1-Freezer" -> <<-2200, -1800, 5000, 7000>>
              [] zone = "Z2-Chiller" -> <<200, 500, 7000, 8000>>
              [] zone = "Z3-Produce" -> <<500, 1000, 8000, 9500>>
              [] zone = "Z4-Pharma"  -> <<200, 800, 5000, 6000>>
              [] OTHER               -> <<200, 500, 7000, 8000>>
    IN  [temp_min |-> defaults[1], temp_max |-> defaults[2], warning_buffer |-> 150,
         humidity_min |-> defaults[3], humidity_max |-> defaults[4],
         alert_sensitivity |-> "Medium", data_quality_threshold |-> 95]

\* ---- inputs of a page run ----

\* longest frame of readings handed to the classifier
MaxReadings == 2

\* (temp_min, temp_max) in hundredths: the Z4-Pharma default band and the
\* same band with its ends exchanged
BandSamples == {<<200, 800>>, <<800, 200>>}
\* warning_buffer 1.0
BufferSamples == {100}
\* the four entries of the selectbox and a value outside the mapping
SensitivitySamples == SensitivityLevels \cup {"Unlisted"}
\* temperatures on and next to every threshold of the band 2.0 .. 8.0
TempSamples == {-1, 0, 49, 50, 99, 100, 199, 200, 500, 951, 1001}
HumiditySamples == {NaN, 5500}
\* the readings of a frame: every temperature with a humidity, and a reading
\* inside the band, one just below it and one far below it without
ReadingSamples ==
    {r \in TempSamples \X HumiditySamples : r[2] = NaN => r[1] \in {-1, 199, 500}}

ConfigSamples ==
    {[temp_min |-> band[1], temp_max |-> band[2], warning_buffer |-> b,
      humidity_min |-> 5000, humidity_max |-> 6000, alert_sensitivity |-> s] :
        band \in BandSamples, b \in BufferSamples, s \in SensitivitySamples}

\* the zone whose rows a page classifies: its own, or a zone's slice on Overview
PageZones(p) == IF p = "Overview" THEN {"Z1-Freezer", "Z4-Pharma"} ELSE {p}

FrameSamples(zone) ==
    UNION {{[i \in 1..n |-> [timestamp |-> i, zone_id |-> zone,
                             temperature |-> f[i][1], humidity |-> f[i][2]]] :
                f \in [1..n -> ReadingSamples]} : n \in 0..MaxReadings}

NotRun == <<"not run">>

\* ---- the page run: setup_threshold_configuration has produced config ----

\* the Z3-Produce page not opened: lines 12-15 have not run
AcknowledgeIdle ==
    /\ acknowledged_alerts = <<>>
    /\ active_alerts_df = <<>>
    /\ apc = "idle"

\* the generator not started, the file not there
GeneratorIdle ==
    /\ file = [exists |-> FALSE, header |-> FALSE, rows |-> <<>>]
    /\ old_rows = 0
    /\ hour = 0
    /\ clock = 0
    /\ last_values = <<>>
    /\ new_data = <<>>
    /\ cycles = 0
    /\ gpc = "idle"

\* the overview page while a zone page is looked at
ScorerIdle ==
    /\ spage = "Overview"
    /\ stream = <<>>
    /\ now = 0
    /\ zone_id = "Z1-Freezer"
    /\ score = <<>>
    /\ spc = "idle"
    /\ summaries = <<>>
    /\ zone_scores = <<>>
    /\ cost_analysis = <<>>

InitClassifier ==
    /\ AcknowledgeIdle
    /\ ScorerIdle
    /\ GeneratorIdle
    /\ page \in ClassifierPages
    /\ config \in ConfigSamples
    /\ df = <<>>
    /\ enhanced_df = NotRun
    /\ cpc = "configured"

\* load_zone_data / the per-zone slice of load_all_zones_data
LoadZoneData ==
    /\ cpc = "configured"
    /\ \E z \in PageZones(page) : \E rows \in FrameSamples(z) : df' = rows
    /\ cpc' = "loaded"
    /\ UNCHANGED <<avars, page, config, enhanced_df, svars, dvars, gvars>>

\* the call without df.copy(): the columns are set on df itself
ApplyCustomAlertLogic_in_place ==
    /\ cpc = "loaded"
    /\ enhanced_df' = apply_custom_alert_logic(page, df, config)
    /\ df' = apply_custom_alert_logic(page, df, config)
    /\ cpc' = "classified"
    /\ UNCHANGED <<avars, page, config, svars, dvars, gvars>>
\* the call enhanced_df = apply_custom_alert_logic(df, config)
ApplyCustomAlertLogic ==
    /\ cpc = "loaded"
    /\ enhanced_df' = apply_custom_alert_logic(page, df, config)
    /\ cpc' = "classified"
    /\ UNCHANGED <<avars, page, config, df, svars, dvars, gvars>>

NextClassifier ==
    \/ LoadZoneData
    \/ ApplyCustomAlertLogic

SpecClassifier == InitClassifier /\ [][NextClassifier]_vars

(***************************************************************************)
(* PERFORMANCE SCORER (calculate_zone_performance_score)                   *)
(*                                                                         *)
(* A scored row is a reading with its alert flag:                          *)
(*   [timestamp, zone_id, temperature, humidity, alert_status].            *)
(* Scores are kept exact as numerators over the window length and are      *)
(* rounded to tenths where the code calls round(x, 1).                     *)
(***************************************************************************)

\* the two versions of the overview page: src/src/pages/Overview.py and the
\* earlier src/pages/overview.py, which also holds the cost estimator
ScorerPages == {"Overview", "overview"}

\* recent_data = zone_data.tail(50)
WindowSize == 50

\* zone_ranges of calculate_zone_performance_score, (temp_min, temp_max)
zone_ranges_earlier(pg, zone) ==
    CASE zone = "Z1-Freezer" -> <<-2200, -1800>>
      [] zone = "Z2-Chiller" -> <<200, 400>>
      [] zone = "Z3-Produce" -> <<800, 1200>>
      [] zone = "Z4-Pharma"  -> <<-500, -200>>
      [] OTHER               -> <<0, 500>>
zone_ranges(pg, zone) ==
    CASE zone = "Z1-Freezer" -> <<-2200, -1800>>
      [] zone = "Z2-Chiller" -> IF pg = "Overview" THEN <<200, 500>> ELSE <<200, 400>>
      [] zone = "Z3-Produce" -> IF pg = "Overview" THEN <<500, 1000>> ELSE <<800, 1200>>
      [] zone = "Z4-Pharma"  -> IF pg = "Overview" THEN <<200, 800>> ELSE <<-500, -200>>
      [] OTHER               -> <<0, 500>>

\* df[df['zone_id'] == zone_id]
ZoneData(frame, zone) == SelectSeq(frame, LAMBDA r : r.zone_id = zone)

TailRows_all(frame, k) == frame
\* DataFrame.tail(k)
TailRows(frame, k) ==
    IF Len(frame) <= k THEN frame ELSE SubSeq(frame, Len(frame) - k + 1, Len(frame))

RECURSIVE SumTo(_, _)
\* f[1] + ... + f[n]
SumTo(f, n) == IF n = 0 THEN 0 ELSE f[n] + SumTo(f, n - 1)

CountRows(w, Test(_)) == Len(SelectSeq(w, Test))

\* n * (n - 1) * Scale^2 times the sample variance (ddof = 1) of the window's
\* temperatures, computed on the differences to the first one
VarNum(w) ==
    LET n == Len(w)
        y == [i \in 1..n |-> w[i].temperature - w[1].temperature]
        sq == [i \in 1..n |-> y[i] * y[i]]
    IN  n * SumTo(sq, n) - SumTo(y, n) * SumTo(y, n)

\* Series.var() <= c for c in whole units squared; the variance of a single
\* reading is NaN and every comparison with it is False
VarAtMost(w, c) ==
    /\ Len(w) > 1
    /\ VarNum(w) <= c * Scale * Scale * Len(w) * (Len(w) - 1)

\* Series.std() <= 0.5, as var <= 0.25
StdAtMostHalf(w) ==
    /\ Len(w) > 1
    /\ VarNum(w) <= ((Scale * Scale) \div 4) * Len(w) * (Len(w) - 1)

\* the largest spread of temperatures for which temp_stability is computed
MaxStd == 4000

\* round(temp_std, 2) in hundredths, NaN for a single reading
temp_stability(w) ==
    LET n == Len(w)
        d == n * (n - 1)
        v == 4 * VarNum(w)
    IN  IF n = 1 THEN NaN
        ELSE CHOOSE r \in 0..MaxStd :
                /\ (r = 0 \/ (2 * r - 1) * (2 * r - 1) * d <= v)
                /\ (2 * r + 1) * (2 * r + 1) * d > v

stability_score_zero_std(w) ==
    IF Len(w) = 1 \/ StdAtMostHalf(w) THEN 40
    ELSE IF VarAtMost(w, 1) THEN 35
    ELSE IF VarAtMost(w, 4) THEN 25
    ELSE 15
stability_score(w) ==
    IF StdAtMostHalf(w) THEN 40
    ELSE IF VarAtMost(w, 1) THEN 35
    ELSE IF VarAtMost(w, 4) THEN 25
    ELSE 15

efficiency_score_zero_var(w) ==
    IF Len(w) = 1 \/ VarAtMost(w, 1) THEN 10
    ELSE IF VarAtMost(w, 4) THEN 7
    ELSE IF VarAtMost(w, 9) THEN 4
    ELSE 1
efficiency_score(w) ==
    IF VarAtMost(w, 1) THEN 10
    ELSE IF VarAtMost(w, 4) THEN 7
    ELSE IF VarAtMost(w, 9) THEN 4
    ELSE 1

\* readings of the window inside [temp_min, temp_max], bounds included
in_range_temps(pg, zone, w) ==
    CountRows(w, LAMBDA r : /\ r.temperature >= zone_ranges(pg, zone)[1]
                            /\ r.temperature <= zone_ranges(pg, zone)[2])

alert_count_of(w) == CountRows(w, LAMBDA r : r.alert_status = "alert")

alert_score_strict(w) ==
    LET a == alert_count_of(w)
        n == Len(w)
    IN  IF a = 0 THEN 30
        ELSE IF 100 * a < 5 * n THEN 25
        ELSE IF 100 * a < 15 * n THEN 15
        ELSE IF 100 * a < 30 * n THEN 8
        ELSE 2
\* the step function of alert_rate = alert_count / len * 100
alert_score(w) ==
    LET a == alert_count_of(w)
        n == Len(w)
    IN  IF a = 0 THEN 30
        ELSE IF 100 * a <= 5 * n THEN 25
        ELSE IF 100 * a <= 15 * n THEN 15
        ELSE IF 100 * a <= 30 * n THEN 8
        ELSE 2

missing_penalty_num_uncapped(w) ==
    20 * CountRows(w, LAMBDA r : IsNaN(r.humidity))
\* len(w) * missing_data_penalty, missing_data_penalty = min(missing/len * 20, 10)
missing_penalty_num(w) ==
    Min2(20 * CountRows(w, LAMBDA r : IsNaN(r.humidity)), 10 * Len(w))

\* time_diff in seconds and the freshness step function of it in minutes
time_diff(w, t) == t - w[Len(w)].timestamp
freshness_score_strict(w, t) ==
    IF time_diff(w, t) < 5 * 60 THEN 10
    ELSE IF time_diff(w, t) < 30 * 60 THEN 7
    ELSE IF time_diff(w, t) < 60 * 60 THEN 4
    ELSE 1
freshness_score(w, t) ==
    IF time_diff(w, t) <= 5 * 60 THEN 10
    ELSE IF time_diff(w, t) <= 30 * 60 THEN 7
    ELSE IF time_diff(w, t) <= 60 * 60 THEN 4
    ELSE 1

\* len(w) * data_quality_score
data_quality_num_unclamped(w, t) ==
    20 * Len(w) - missing_penalty_num(w) + freshness_score(w, t) * Len(w)
data_quality_num(w, t) ==
    Max2(0, Min2(20 * Len(w),
                 20 * Len(w) - missing_penalty_num(w) + freshness_score(w, t) * Len(w)))

\* len(w) * temp_score, temp_score = stability_score * (temp_compliance / 100)
temp_score_num(pg, zone, w) == stability_score(w) * in_range_temps(pg, zone, w)

\* len(w) * total_score
total_score_num_unclamped(pg, zone, w, t) ==
    temp_score_num(pg, zone, w) + alert_score(w) * Len(w)
        + data_quality_num_unclamped(w, t) + efficiency_score(w) * Len(w)
total_score_num(pg, zone, w, t) ==
    Max2(0, Min2(100 * Len(w),
                 temp_score_num(pg, zone, w) + alert_score(w) * Len(w)
                    + data_quality_num(w, t) + efficiency_score(w) * Len(w)))

\* round(num / den, 0) for den > 0: the nearest integer; a value exactly halfway
\* goes to either neighbour, as the binary value it stands for lies on either side
RoundDiv(num, den) ==
    LET q == num \div den
        r == num - q * den
    IN  IF 2 * r < den THEN {q}
        ELSE IF 2 * r > den THEN {q + 1}
        ELSE {q, q + 1}

\* the results calculate_zone_performance_score(df, zone_id) can return at
\* time t for a non-empty window w: <<ZoneScore>> with scores in tenths of a
\* point, percentages in tenths of a percent, minutes in tenths of a minute;
\* <<>> stands for None
WindowScores(pg, w, zone, t) ==
    LET n == Len(w)
    IN       {<< [total_score |-> total,
                  temperature_score |-> temp,
                  alert_score |-> 10 * alert_score(w),
                  data_quality_score |-> dq,
                  efficiency_score |-> 10 * efficiency_score(w),
                  temp_compliance |-> compliance,
                  alert_rate |-> rate,
                  temp_stability |-> temp_stability(w),
                  data_freshness_minutes |-> fresh] >> :
                total \in RoundDiv(10 * total_score_num(pg, zone, w, t), n),
                temp \in RoundDiv(10 * temp_score_num(pg, zone, w), n),
                dq \in RoundDiv(10 * data_quality_num(w, t), n),
                compliance \in RoundDiv(1000 * in_range_temps(pg, zone, w), n),
                rate \in RoundDiv(1000 * alert_count_of(w), n),
                fresh \in RoundDiv(10 * time_diff(w, t), 60)}

\* a score of 0 in place of None
ZeroScore ==
    [total_score |-> 0, temperature_score |-> 0, alert_score |-> 0,
     data_quality_score |-> 0, efficiency_score |-> 0, temp_compliance |-> 0,
     alert_rate |-> 0, temp_stability |-> 0, data_freshness_minutes |-> 0]

calculate_zone_performance_score_zero(pg, frame, zone, t) ==
    IF ZoneData(frame, zone) = <<>> THEN {<<ZeroScore>>}
    ELSE WindowScores(pg, TailRows(ZoneData(frame, zone), WindowSize), zone, t)
calculate_zone_performance_score(pg, frame, zone, t) ==
    IF ZoneData(frame, zone) = <<>> THEN {<<>>}
    ELSE WindowScores(pg, TailRows(ZoneData(frame, zone), WindowSize), zone, t)

(***************************************************************************)
(* Runs of the scorer: a stream is a run of regular freezer readings       *)
(* followed by a few arbitrary readings, ten seconds apart.                *)
(***************************************************************************)

\* the arbitrary readings at the end of a stream
MaxTail == 2

\* the time between two readings: time.sleep(10)
Period == 10

\* (length, alerts) of the regular run: `alerts' of its last rows are flagged
BaseSamples == {<<0, 0>>, <<18, 1>>, <<18, 5>>, <<50, 0>>}

\* (zone, temperature, humidity, flag) of the arbitrary readings
RowSamples ==
    ({"Z1-Freezer"} \X {-2300, -2000} \X {6000} \X {"normal", "alert"})
        \cup {<<"Z1-Freezer", -2100, 6000, "normal">>,
               <<"Z1-Freezer", -2000, NaN, "normal">>,
               <<"Z2-Chiller", 450, 7500, "normal">>}

\* datetime.now() as the age of the last row of the stream, in seconds
AgeSamples == {-10, 300, 1800, 3600, 3610}

BaseRow(i, base) ==
    [timestamp |-> Period * i, zone_id |-> "Z1-Freezer", temperature |-> -2000,
     humidity |-> 6000,
     alert_status |-> IF i > base[1] - base[2] THEN "alert" ELSE "normal"]

StreamOf(base, tail) ==
    [i \in 1..(base[1] + Len(tail)) |->
        IF i <= base[1] THEN BaseRow(i, base)
        ELSE [timestamp |-> Period * i,
              zone_id |-> tail[i - base[1]][1],
              temperature |-> tail[i - base[1]][2],
              humidity |-> tail[i - base[1]][3],
              alert_status |-> tail[i - base[1]][4]]]

StreamSamples ==
    {StreamOf(base, tail) :
        base \in BaseSamples, tail \in UNION {[1..n -> RowSamples] : n \in 0..MaxTail}}

\* streams of the earlier page, which hands the rows to the scorer in the order
\* of the file: two freezer readings, the later one first (Overview.py sorts
\* the frame by timestamp before it scores, line 881)
UnsortedSamples ==
    {[i \in 1..2 |-> [StreamOf(<<0, 0>>, tail)[i] EXCEPT !.timestamp = Period * (3 - i)]] :
        tail \in [1..2 -> {r \in RowSamples : r[1] = "Z1-Freezer" /\ r[4] = "normal"}]}

ClassifierIdle ==
    /\ page = "Overview"
    /\ config = [temp_min |-> 200, temp_max |-> 800, warning_buffer |-> 150,
                 humidity_min |-> 5000, humidity_max |-> 6000,
                 alert_sensitivity |-> "Medium"]
    /\ df = <<>>
    /\ enhanced_df = <<>>
    /\ cpc = "idle"

InitScorer ==
    /\ AcknowledgeIdle
    /\ ClassifierIdle
    /\ GeneratorIdle
    /\ spage \in ScorerPages
    /\ stream \in StreamSamples \cup (IF spage = "overview" THEN UnsortedSamples ELSE {})
    /\ \E age \in AgeSamples : now = Period * Len(stream) + age
    /\ zone_id = "Z1-Freezer"
    /\ score = <<>>
    /\ spc = "loaded"
    /\ summaries = <<>>
    /\ zone_scores = <<>>
    /\ cost_analysis = <<>>

\* a call that takes the rows it scores out of the frame
ScoreZone_consuming(zone) ==
    /\ spc = "loaded"
    /\ zone_id' = zone
    /\ score' \in calculate_zone_performance_score(spage, stream, zone, now)
    /\ stream' = SelectSeq(stream, LAMBDA r : r.zone_id # zone)
    /\ spc' = "scored"
    /\ UNCHANGED <<avars, cvars, spage, now, dvars, gvars>>
\* one call calculate_zone_performance_score(df, zone)
ScoreZone(zone) ==
    /\ spc = "loaded"
    /\ zone_id' = zone
    /\ score' \in calculate_zone_performance_score(spage, stream, zone, now)
    /\ spc' = "scored"
    /\ UNCHANGED <<avars, cvars, spage, stream, now, dvars, gvars>>

\* the page calls the scorer again on the same df for the same zone (the
\* performance export of Overview.py, the cost estimator of overview.py),
\* here with the same reading of the clock
ScoreAgain ==
    /\ spc = "scored"
    /\ score' \in calculate_zone_performance_score(spage, stream, zone_id, now)
    /\ spc' = "rescored"
    /\ UNCHANGED <<avars, cvars, spage, stream, now, zone_id, dvars, gvars>>

NextScorer ==
    \/ \E zone \in ZoneSet : ScoreZone(zone)
    \/ ScoreAgain

SpecScorer == InitScorer /\ [][NextScorer]_vars

(***************************************************************************)
(* OVERVIEW PAGE: zone summaries, performance dashboard, cost estimator    *)
(***************************************************************************)

RECURSIVE SumTemps(_)
\* Series.sum() of the temperatures of a frame
SumTemps(frame) ==
    IF frame = <<>> THEN 0 ELSE frame[1].temperature + SumTemps(Tail(frame))

AlertRows(frame) == SelectSeq(frame, LAMBDA r : r.alert_status = "alert")

zone_status(performance_score) ==
    IF performance_score >= 90 * 10 THEN "excellent"
    ELSE IF performance_score >= 75 * 10 THEN "good"
    ELSE IF performance_score >= 60 * 10 THEN "fair"
    ELSE IF performance_score >= 40 * 10 THEN "poor"
    ELSE "critical"

\* the summary built from a zone's rows and the result of the scorer; means
\* and rates are fractions <<numerator, denominator>>, temp_std is kept as its
\* square, the variance
ZoneSummary(zone_data, performance_data) ==
    LET n == Len(zone_data)
        latest == zone_data[n]
        performance_score ==
            IF performance_data # <<>> THEN performance_data[1].total_score ELSE 0
    IN  [latest_temp |-> latest.temperature,
         latest_humidity |-> latest.humidity,
         avg_temp |-> <<SumTemps(zone_data), n>>,
         temp_std |-> IF n = 1 THEN <<NaN, 1>> ELSE <<VarNum(zone_data), n * (n - 1)>>,
         temp_trend |-> IF n >= 10
                        THEN <<SumTemps(TailRows(zone_data, 5))
                                 - SumTemps(SubSeq(zone_data, n - 9, n - 5)), 5>>
                        ELSE <<0, 1>>,
         alert_count |-> Len(AlertRows(zone_data)),
         data_points |-> n,
         alert_rate |-> <<100 * Len(AlertRows(zone_data)), n>>,
         timestamp |-> latest.timestamp,
         recent_alerts |-> TailRows(AlertRows(zone_data), 10),
         performance_score |-> performance_score,
         zone_status |-> zone_status(performance_score)]

\* the results get_zone_summary(df, zone) can return: <<>> for None
get_zone_summary(pg, frame, zone, t) ==
    IF ZoneData(frame, zone) = <<>> THEN {<<>>}
    ELSE {<<ZoneSummary(ZoneData(frame, zone), pd)>> :
            pd \in calculate_zone_performance_score(pg, frame, zone, t)}

\* the dictionaries zone_scores create_performance_dashboard can build: the
\* zones whose score_data is not None
ZoneScoresOf(pg, frame, t) ==
    LET res(z) == calculate_zone_performance_score(pg, frame, z, t)
        scored == {z \in ZoneSet : <<>> \notin res(z)}
    IN  {[z \in scored |-> g[z][1]] :
            g \in {f \in [scored -> UNION {res(z) : z \in scored}] :
                     \A z \in scored : f[z] \in res(z)}}

\* cost_config['product_loss_per_alert'], dollars
product_loss_per_alert(zone) ==
    CASE zone = "Z1-Freezer" -> 150
      [] zone = "Z2-Chiller" -> 75
      [] zone = "Z3-Produce" -> 200
      [] zone = "Z4-Pharma"  -> 2500

\* optimal_ranges.get(zone, 0), hundredths of a degree
optimal_temp(zone) ==
    CASE zone = "Z1-Freezer" -> -2000
      [] zone = "Z2-Chiller" -> 300
      [] zone = "Z3-Produce" -> 1000
      [] zone = "Z4-Pharma"  -> -350
      [] OTHER               -> 0

RECURSIVE RowsProduct(_, _)
\* the product of the row counts of the first k zones that have rows
RowsProduct(frame, k) ==
    IF k = 0 THEN 1
    ELSE Max2(1, Len(ZoneData(frame, Zones[k]))) * RowsProduct(frame, k - 1)

\* Money is counted in 1/MoneyUnit of a dollar, a unit in which every amount
\* the estimator computes from the frame is a whole number.
MoneyUnit(frame) == 250 * RowsProduct(frame, 4)

\* product_loss_cost = alert_count * product_loss_per_alert[zone]
product_loss_cost(frame, zone) ==
    Len(AlertRows(ZoneData(frame, zone))) * product_loss_per_alert(zone) * MoneyUnit(frame)

\* energy_waste_cost = 800 * min(|avg_temp - optimal_temp| * 5, 50) / 100; with
\* deviation = n * Scale * |avg_temp - optimal_temp| this is
\* min(2 * deviation, 2000 * n) / (5 * n) dollars
energy_waste_cost(frame, zone) ==
    LET n == Len(ZoneData(frame, zone))
        deviation == Abs(SumTemps(ZoneData(frame, zone)) - n * optimal_temp(zone))
    IN  Min2(2 * deviation, 2000 * n) * (MoneyUnit(frame) \div (5 * n))

\* excess_maintenance_cost = 200 * (1.2 * (100 - performance_score) / 100 - 1)
\* below a performance_score of 75, else 0
excess_maintenance_cost_floored(frame, performance_score) ==
    IF performance_score < 75 * 10
    THEN Max2(0, (12 * (100 * 10 - performance_score) - 10000) * ((200 * MoneyUnit(frame)) \div 10000))
    ELSE 0
excess_maintenance_cost(frame, performance_score) ==
    IF performance_score < 75 * 10
    THEN (12 * (100 * 10 - performance_score) - 10000) * ((200 * MoneyUnit(frame)) \div 10000)
    ELSE 0

\* compliance_risk_cost from the alert_rate the scorer reported
compliance_risk_cost(frame, alert_rate) ==
    IF alert_rate > 10 * 10 THEN 500 * MoneyUnit(frame)
    ELSE IF alert_rate > 5 * 10 THEN 200 * MoneyUnit(frame)
    ELSE 0

\* zone_cost_analysis of one zone with its score
ZoneCostAnalysis(frame, zone, performance_data) ==
    LET product == product_loss_cost(frame, zone)
        energy == energy_waste_cost(frame, zone)
        excess == excess_maintenance_cost(frame, performance_data.total_score)
        risk == compliance_risk_cost(frame, performance_data.alert_rate)
    IN  [product_loss_cost |-> product,
         energy_waste_cost |-> energy,
         excess_maintenance_cost |-> excess,
         compliance_risk_cost |-> risk,
         potential_monthly_savings |-> (8 * product + 7 * energy + 6 * excess) \div 10,
         total_monthly_cost |-> product + energy + excess + risk,
         performance_score |-> performance_data.total_score]

RECURSIVE SumField(_, _, _)
\* the sum of one field of the zone analyses over the first k zones
SumField(analysis, field, k) ==
    IF k = 0 THEN 0
    ELSE SumField(analysis, field, k - 1)
            + (IF Zones[k] \in DOMAIN analysis THEN analysis[Zones[k]][field] ELSE 0)

SystemTotals_no_floor(frame, analysis) ==
    LET total_system_cost == SumField(analysis, "total_monthly_cost", 4)
        total_potential_savings == SumField(analysis, "potential_monthly_savings", 4)
    IN  [total_monthly_cost |-> total_system_cost,
         total_potential_savings |-> total_potential_savings,
         annual_cost_impact |-> total_system_cost * 12,
         annual_savings_potential |-> total_potential_savings * 12,
         roi_percentage |-> <<total_potential_savings, total_system_cost>>]
\* cost_analysis['system_totals']; roi_percentage is 100 times the fraction
\* <<numerator, denominator>> kept here, savings / max(cost, 1)
SystemTotals(frame, analysis) ==
    LET total_system_cost == SumField(analysis, "total_monthly_cost", 4)
        total_potential_savings == SumField(analysis, "potential_monthly_savings", 4)
    IN  [total_monthly_cost |-> total_system_cost,
         total_potential_savings |-> total_potential_savings,
         annual_cost_impact |-> total_system_cost * 12,
         annual_savings_potential |-> total_potential_savings * 12,
         roi_percentage |-> <<total_potential_savings,
                              Max2(total_system_cost, 1 * MoneyUnit(frame))>>]

\* the dictionaries calculate_cost_impact_metrics(df, zones) can return: zones
\* without rows or without a score are skipped
calculate_cost_impact_metrics(pg, frame, t) ==
    LET res(z) == calculate_zone_performance_score(pg, frame, z, t)
        costed == {z \in ZoneSet : ZoneData(frame, z) # <<>> /\ <<>> \notin res(z)}
    IN  {[zones |-> [z \in costed |-> ZoneCostAnalysis(frame, z, g[z][1])],
          system_totals |->
              SystemTotals(frame, [z \in costed |-> ZoneCostAnalysis(frame, z, g[z][1])])] :
            g \in {f \in [costed -> UNION {res(z) : z \in costed}] :
                     \A z \in costed : f[z] \in res(z)}}

(***************************************************************************)
(* Runs of the overview page.  The earlier page renders the performance    *)
(* dashboard, the cost dashboard and then the zone summaries; the later    *)
(* page renders the zone summaries and then the performance dashboard.     *)
(***************************************************************************)

\* the rows of the frame of a page run
MaxRows == 3

PageRowSamples ==
    ({"Z1-Freezer"} \X {-2000, -1700} \X {6000} \X {"normal", "alert"})
        \cup {<<"Z4-Pharma", 500, 5500, "normal">>, <<"Z4-Pharma", -350, NaN, "alert">>,
              <<"Z2-Chiller", 300, 7500, "normal">>}

PageAgeSamples == {300, 3610}

PageStreamSamples ==
    {StreamOf(<<0, 0>>, tail) : tail \in UNION {[1..n -> PageRowSamples] : n \in 0..MaxRows}}

InitPage ==
    /\ AcknowledgeIdle
    /\ ClassifierIdle
    /\ GeneratorIdle
    /\ spage \in ScorerPages
    /\ stream \in PageStreamSamples
    /\ \E age \in PageAgeSamples : now = Period * Len(stream) + age
    /\ zone_id = "Z1-Freezer"
    /\ score = <<>>
    /\ spc = "start"
    /\ summaries = <<>>
    /\ zone_scores = <<>>
    /\ cost_analysis = <<>>

\* create_performance_dashboard(df, zones)
CreatePerformanceDashboard ==
    /\ \/ spage = "overview" /\ spc = "start"
       \/ spage = "Overview" /\ spc = "summaries" /\ Len(summaries) = 4
    /\ zone_scores' \in ZoneScoresOf(spage, stream, now)
    /\ spc' = IF spage = "overview" THEN "dashboard" ELSE "done"
    /\ UNCHANGED <<avars, cvars, gvars, spage, stream, now, zone_id, score, summaries, cost_analysis>>

\* create_cost_impact_dashboard(df, zones) of the earlier page
CreateCostImpactDashboard ==
    /\ spage = "overview" /\ spc = "dashboard"
    /\ cost_analysis' \in calculate_cost_impact_metrics(spage, stream, now)
    /\ spc' = "summaries"
    /\ UNCHANGED <<avars, cvars, gvars, spage, stream, now, zone_id, score, summaries, zone_scores>>

\* the next summary = get_zone_summary(df, zone) of the loop over the zones
GetZoneSummary ==
    /\ \/ spage = "Overview" /\ spc \in {"start", "summaries"}
       \/ spage = "overview" /\ spc = "summaries"
    /\ Len(summaries) < 4
    /\ \E summary \in get_zone_summary(spage, stream, Zones[Len(summaries) + 1], now) :
            summaries' = Append(summaries, summary)
    /\ spc' = IF spage = "overview" /\ Len(summaries) = 3 THEN "done" ELSE "summaries"
    /\ UNCHANGED <<avars, cvars, gvars, spage, stream, now, zone_id, score, zone_scores, cost_analysis>>

NextPage ==
    \/ CreatePerformanceDashboard
    \/ CreateCostImpactDashboard
    \/ GetZoneSummary

SpecPage == InitPage /\ [][NextPage]_vars


(***************************************************************************)
(* A run of Overview.py from the file to a score: the page classifies the  *)
(* rows of every zone with the zone's default configuration, puts them     *)
(* back together in timestamp order and scores a zone on the result.       *)
(***************************************************************************)

\* the rows of the file the run reads
MaxRunRows == 3

\* (zone, temperature, humidity) of the rows of the file: in the band, beyond
\* it by less than the buffer, by more than the buffer and by more than twice
\* the buffer
RunRowSamples ==
    ({"Z1-Freezer"} \X {-2000, -1700, -1640, -2500} \X {6000})
        \cup ({"Z4-Pharma"} \X {500, 1000} \X {5500})

\* full_df = load_all_zones_data(): rows without an alert flag, ten seconds apart
RunStreamSamples ==
    {[i \in 1..Len(rows) |->
        [timestamp |-> Period * i, zone_id |-> rows[i][1],
         temperature |-> rows[i][2], humidity |-> rows[i][3]]] :
        rows \in UNION {[1..n -> RunRowSamples] : n \in 0..MaxRunRows}}

RECURSIVE ProcessedDfs(_, _)
\* pd.concat(processed_dfs): the classified rows of the first k zones, zone
\* after zone; a zone without rows is left out
ProcessedDfs(frame, k) ==
    IF k = 0 THEN <<>>
    ELSE ProcessedDfs(frame, k - 1)
            \o apply_custom_alert_logic("Overview", ZoneData(frame, Zones[k]),
                                        setup_threshold_configuration(Zones[k]))

\* df = pd.concat(processed_dfs).sort_values('timestamp').reset_index(drop=True)
ProcessedFrame(frame) ==
    SortSeq(ProcessedDfs(frame, 4), LAMBDA a, b : a.timestamp < b.timestamp)

InitOverviewRun ==
    /\ AcknowledgeIdle
    /\ ClassifierIdle
    /\ GeneratorIdle
    /\ spage = "Overview"
    /\ stream \in RunStreamSamples
    /\ \E age \in PageAgeSamples : now = Period * Len(stream) + age
    /\ zone_id = "Z1-Freezer"
    /\ score = <<>>
    /\ spc = "raw"
    /\ summaries = <<>>
    /\ zone_scores = <<>>
    /\ cost_analysis = <<>>

\* the loop over the zones and the concatenation; the page stops on an empty
\* frame
ProcessZones ==
    /\ spc = "raw"
    /\ stream # <<>>
    /\ stream' = ProcessedFrame(stream)
    /\ spc' = "loaded"
    /\ UNCHANGED <<avars, cvars, spage, now, zone_id, score, dvars, gvars>>

NextOverviewRun ==
    \/ ProcessZones
    \/ \E zone \in ZoneSet : ScoreZone(zone)

SpecOverviewRun == InitOverviewRun /\ [][NextOverviewRun]_vars

(***************************************************************************)
(* SENSOR-STREAM GENERATOR (src/src/live_data_generator.py)                *)
(*                                                                         *)
(* The file is [exists, header, rows]; a row is                            *)
(* [timestamp, zone_id, temperature, humidity] (the two threshold labels   *)
(* of a row are constants of its zone).  A field of a row read back from   *)
(* the file is a number in hundredths, NaN for an empty field, BadText for *)
(* a text float() rejects, NanText for a text float() reads as nan.        *)
(***************************************************************************)

\* a text field float() raises ValueError on
BadText == -7777777

\* a text field that is not a missing value for read_csv and that float()
\* reads as nan
NanText == -6666666

\* Python's None
None == -8888888

\* a < b on floats: False when either side is nan
PyLess(a, b) == ~IsNaN(a) /\ ~IsNaN(b) /\ a < b

\* Python's min(a, b) and max(a, b): the first argument unless the second is
\* strictly smaller (larger)
PyMin(a, b) == IF PyLess(b, a) THEN b ELSE a
PyMax(a, b) == IF PyLess(a, b) THEN b ELSE a

\* a + b and a - b on floats
PyAdd(a, b) == IF IsNaN(a) \/ IsNaN(b) THEN NaN ELSE a + b
PySub(a, b) == IF IsNaN(a) \/ IsNaN(b) THEN NaN ELSE a - b
PyTimes(k, a) == IF IsNaN(a) THEN NaN ELSE k * a

\* ZONE_RANGES, hundredths
ZONE_RANGES(zone) ==
    CASE zone = "Z1-Freezer" ->
            [temp_min |-> -2200, temp_max |-> -1800, humidity_min |-> 5000, humidity_max |-> 7000]
      [] zone = "Z2-Chiller" ->
            [temp_min |-> 200, temp_max |-> 500, humidity_min |-> 7000, humidity_max |-> 8000]
      [] zone = "Z3-Produce" ->
            [temp_min |-> 500, temp_max |-> 1000, humidity_min |-> 8000, humidity_max |-> 9500]
      [] zone = "Z4-Pharma" ->
            [temp_min |-> 200, temp_max |-> 800, humidity_min |-> 5000, humidity_max |-> 6000]

MAX_TEMP_DRIFT == 100
MAX_HUMIDITY_DRIFT == 300

\* float(field): ValueError is BadText, which the caller catches
ToFloat(field) == IF field = NanText THEN NaN ELSE field

\* the rows pandas reads as data: without a header line the first row is
\* taken as the header
DataRows(f) == IF f.header \/ f.rows = <<>> THEN f.rows ELSE Tail(f.rows)

\* DataFrame.dropna()
DropNa(rows) == SelectSeq(rows, LAMBDA r : ~IsNaN(r.temperature) /\ ~IsNaN(r.humidity))

\* the last valid values of one zone from its last row
LastOfZone(zone, last_row) ==
    LET temp == ToFloat(last_row.temperature)
        humidity == ToFloat(last_row.humidity)
        zone_range == ZONE_RANGES(zone)
    IN  [temperature |->
            IF PyLess(temp, zone_range.temp_min - 10 * Scale)
                 \/ PyLess(zone_range.temp_max + 10 * Scale, temp)
            THEN (zone_range.temp_min + zone_range.temp_max) \div 2
            ELSE temp,
         humidity |->
            IF PyLess(humidity, 0) \/ PyLess(100 * Scale, humidity)
            THEN (zone_range.humidity_min + zone_range.humidity_max) \div 2
            ELSE humidity]

\* get_last_values(): the dictionary of the zones that have a last row whose
\* fields convert; {} when the file is missing, empty or cannot be read (a
\* file without its header line has no zone_id column)
get_last_values(f) ==
    LET rows == DropNa(DataRows(f))
        usable == {z \in ZoneSet :
                     /\ ZoneData(rows, z) # <<>>
                     /\ ZoneData(rows, z)[Len(ZoneData(rows, z))].temperature # BadText
                     /\ ZoneData(rows, z)[Len(ZoneData(rows, z))].humidity # BadText}
    IN  IF ~f.exists \/ (~f.header /\ f.rows = <<>>) THEN <<>>
        ELSE IF ~f.header THEN <<>>
        ELSE [z \in usable |-> LastOfZone(z, ZoneData(rows, z)[Len(ZoneData(rows, z))])]

\* abs(x) on floats
PyAbs(x) == IF IsNaN(x) THEN NaN ELSE Abs(x)

\* generate_realistic_value(current_val, target_min, target_max, max_drift)
\* under the random draws d: d.first is the uniform first value in percent of
\* the range, d.drift the normal drift in percent of max_drift, d.violation
\* the outcome of the two rand() calls ("none", "low" or "high"), d.amount
\* the violation_amount and d.pull the uniform pull-back, in hundredths
generate_realistic_value(current_val, target_min, target_max, max_drift, d) ==
    LET drifted == PyAdd(current_val, (d.drift * max_drift) \div 100)
        new_val ==
            IF d.violation = "low" THEN target_min - d.amount
            ELSE IF d.violation = "high" THEN target_max + d.amount
            ELSE IF PyLess(drifted, target_min) THEN target_min + d.pull
            ELSE IF PyLess(target_max, drifted) THEN target_max - d.pull
            ELSE drifted
    IN  IF current_val = None
        THEN target_min + (d.first * (target_max - target_min)) \div 100
        ELSE IF PyLess(max_drift, PyAbs(PySub(new_val, current_val)))
        THEN IF PyLess(current_val, new_val) THEN current_val + max_drift
             ELSE current_val - max_drift
        ELSE new_val

daily_variation_doubled(hr) ==
    LET quarter == <<0, 1553, 3000, 4243, 5196, 5796, 6000>>
        h == hr % 12
        swing == IF h <= 6 THEN quarter[h + 1] ELSE quarter[12 - h + 1]
    IN  IF hr < 12 THEN swing ELSE -swing
\* np.sin((hour / 24) * 2 * np.pi) * 0.3 in ten-thousandths of a degree
daily_variation(hr) ==
    LET quarter == <<0, 776, 1500, 2121, 2598, 2898, 3000>>
        h == hr % 12
        swing == IF h <= 6 THEN quarter[h + 1] ELSE quarter[12 - h + 1]
    IN  IF hr < 12 THEN swing ELSE -swing

\* round(x, 2) of a value in ten-thousandths, in hundredths
Round2(x) == IF IsNaN(x) THEN NaN ELSE (x + 50) \div 100

\* max(low, min(high, x)) with numpy's clip in place of Python's min and max
ClipNumpy(low, high, x) ==
    IF IsNaN(x) THEN NaN ELSE IF x < low THEN low ELSE IF x > high THEN high ELSE x
Clip(low, high, x) == PyMax(low, PyMin(high, x))

\* the safety bounds of the temperature, in ten-thousandths
SafetyBoundsOff(zone, temp) == temp
SafetyBounds(zone, temp) ==
    IF zone = "Z1-Freezer" THEN Clip(-35 * Scale * 100, -10 * Scale * 100, temp)
    ELSE Clip(-10 * Scale * 100, 25 * Scale * 100, temp)

\* the data point generate_data builds for one zone at the given hour, stamped
\* with the given time, under the draws td for the temperature and hd for the
\* humidity
DataPoint(zone, last_vals, hr, stamp, td, hd) ==
    LET ranges == ZONE_RANGES(zone)
        prev_temp == IF zone \in DOMAIN last_vals THEN last_vals[zone].temperature ELSE None
        prev_humidity == IF zone \in DOMAIN last_vals THEN last_vals[zone].humidity ELSE None
        temp == PyAdd(PyTimes(100, generate_realistic_value(prev_temp, ranges.temp_min,
                                        ranges.temp_max, MAX_TEMP_DRIFT, td)),
                      daily_variation(hr))
        humidity_adjustment ==
            IF prev_temp # None THEN PyTimes(-2, PySub(temp, PyTimes(100, prev_temp))) ELSE 0
        humidity == PyAdd(PyTimes(100, generate_realistic_value(prev_humidity, ranges.humidity_min,
                                        ranges.humidity_max, MAX_HUMIDITY_DRIFT, hd)),
                          humidity_adjustment)
    IN  [timestamp |-> stamp,
         zone_id |-> zone,
         temperature |-> Round2(SafetyBounds(zone, temp)),
         humidity |-> Round2(Clip(0, 100 * Scale * 100, humidity))]

\* generate_data(last_values): one data point per zone of ZONE_RANGES, in its
\* order; the clock passes to the next second after `before' of them
generate_data(last_vals, hr, time, before, td, hd) ==
    [i \in 1..4 |->
        DataPoint(Zones[i], last_vals, hr, IF i <= before THEN time ELSE time + 1, td, hd)]

\* df.isnull().sum().sum() > 0 of the batch
HasNull(batch) ==
    \E i \in 1..Len(batch) : IsNaN(batch[i].temperature) \/ IsNaN(batch[i].humidity)

\* clean_existing_data(): a file that exists and can be read is rewritten
\* without its rows with a missing value
clean_existing_data(f) ==
    IF ~f.exists \/ (~f.header /\ f.rows = <<>>) THEN f
    ELSE IF f.header THEN [f EXCEPT !.rows = DropNa(f.rows)]
    ELSE [f EXCEPT !.rows = <<f.rows[1]>> \o DropNa(Tail(f.rows))]

(***************************************************************************)
(* Runs of the generator: main() started on a file with arbitrary previous *)
(* content.                                                                *)
(***************************************************************************)

\* iterations of the main loop that are followed
MaxCycles == 2

HourSamples == {0, 6, 17}

PrevRow(k, zone, temperature, humidity) ==
    [timestamp |-> -Period * k, zone_id |-> zone,
     temperature |-> temperature, humidity |-> humidity]

\* the rows of the file before the generator starts
PrevRowsSamples ==
    {<<>>,
     <<PrevRow(1, "Z1-Freezer", -2000, 6000)>>,
     <<PrevRow(1, "Z1-Freezer", -800, 10000)>>,
     <<PrevRow(1, "Z1-Freezer", -3300, 15000)>>,
     <<PrevRow(2, "Z1-Freezer", -2000, 6000), PrevRow(1, "Z1-Freezer", NaN, 6000)>>,
     <<PrevRow(1, "Z1-Freezer", -2000, NaN)>>,
     <<PrevRow(2, "Z3-Produce", 2000, 0), PrevRow(1, "Z1-Freezer", BadText, 6000)>>,
     <<PrevRow(1, "Z1-Freezer", NanText, 6000)>>,
     <<PrevRow(2, "Z4-Pharma", 500, NanText), PrevRow(1, "Z2-Chiller", -800, 7500)>>}

FileSamples ==
    {[exists |-> FALSE, header |-> FALSE, rows |-> <<>>],
     [exists |-> TRUE, header |-> FALSE, rows |-> <<>>]}
        \cup {[exists |-> TRUE, header |-> TRUE, rows |-> rows] : rows \in PrevRowsSamples}

Draw(first, drift, violation, amount, pull) ==
    [first |-> first, drift |-> drift, violation |-> violation, amount |-> amount, pull |-> pull]

\* the random draws of one cycle, the same for every zone, and the number of
\* data points stamped before the clock passes to the next second
DrawSamples ==
    {[td |-> Draw(0, 0, "none", 50, 0),      hd |-> Draw(100, 0, "none", 50, 0),    before |-> 4],
     [td |-> Draw(0, 0, "none", 50, 0),      hd |-> Draw(100, 0, "none", 50, 0),    before |-> 2],
     [td |-> Draw(100, 150, "none", 50, 99), hd |-> Draw(0, -150, "none", 50, 99),  before |-> 4],
     [td |-> Draw(50, -150, "none", 50, 0),  hd |-> Draw(50, 150, "none", 50, 0),   before |-> 4],
     [td |-> Draw(50, 30, "none", 50, 50),   hd |-> Draw(50, -30, "none", 50, 50),  before |-> 4],
     [td |-> Draw(50, 0, "low", 50, 0),      hd |-> Draw(50, 0, "none", 50, 0),     before |-> 4],
     [td |-> Draw(50, 0, "high", 200, 0),    hd |-> Draw(50, 0, "none", 50, 0),     before |-> 4],
     [td |-> Draw(50, 0, "none", 50, 0),     hd |-> Draw(50, 0, "high", 200, 0),    before |-> 4],
     [td |-> Draw(50, 0, "none", 50, 0),     hd |-> Draw(50, 0, "low", 50, 0),      before |-> 4]}

InitGenerator ==
    /\ AcknowledgeIdle
    /\ ClassifierIdle
    /\ ScorerIdle
    /\ file \in FileSamples
    /\ old_rows = Len(file.rows)
    /\ hour \in HourSamples
    /\ clock = 0
    /\ last_values = <<>>
    /\ new_data = <<>>
    /\ cycles = 0
    /\ gpc = "clean"

\* clean_existing_data()
CleanExistingData ==
    /\ gpc = "clean"
    /\ file' = clean_existing_data(file)
    /\ old_rows' = Len(clean_existing_data(file).rows)
    /\ gpc' = "create"
    /\ UNCHANGED <<avars, cvars, svars, dvars, hour, clock, last_values, new_data, cycles>>

\* main: the file is created with its header line if it does not exist
CreateFile ==
    /\ gpc = "create"
    /\ file' = IF file.exists THEN file
               ELSE [exists |-> TRUE, header |-> TRUE, rows |-> <<>>]
    /\ gpc' = "read"
    /\ UNCHANGED <<avars, cvars, svars, dvars, old_rows, hour, clock, last_values, new_data, cycles>>

\* last_values = get_last_values()
GetLastValues ==
    /\ gpc = "read"
    /\ cycles < MaxCycles
    /\ last_values' = get_last_values(file)
    /\ gpc' = "generate"
    /\ UNCHANGED <<avars, cvars, svars, dvars, file, old_rows, hour, clock, new_data, cycles>>

\* new_data = generate_data(last_values)
GenerateData ==
    /\ gpc = "generate"
    /\ \E d \in DrawSamples :
          new_data' = generate_data(last_values, hour, clock, d.before, d.td, d.hd)
    /\ gpc' = "verify"
    /\ UNCHANGED <<avars, cvars, svars, dvars, file, old_rows, hour, clock, last_values, cycles>>

\* main verifies the batch for missing values: a batch with one is dropped and
\* the loop continues at once
VerifyBatch ==
    /\ gpc = "verify"
    /\ IF HasNull(new_data)
       THEN gpc' = "read" /\ cycles' = cycles + 1
       ELSE gpc' = "write" /\ cycles' = cycles
    /\ UNCHANGED <<avars, cvars, svars, dvars, file, old_rows, hour, clock, last_values, new_data>>

\* df.to_csv(FILE_PATH, mode='a', header=False, index=False)
WriteBatch ==
    /\ gpc = "write"
    /\ file' = [file EXCEPT !.exists = TRUE, !.rows = file.rows \o new_data]
    /\ gpc' = "sleep"
    /\ UNCHANGED <<avars, cvars, svars, dvars, old_rows, hour, clock, last_values, new_data, cycles>>

\* the write raises and nothing catches it: the process ends
WriteFails_uncaught ==
    /\ gpc = "write"
    /\ gpc' = "idle"
    /\ UNCHANGED <<avars, cvars, svars, dvars, file, old_rows, hour, clock, last_values, new_data, cycles>>
\* the write raises: the handler of the main loop prints the error
WriteFails ==
    /\ gpc = "write"
    /\ gpc' = "sleep"
    /\ UNCHANGED <<avars, cvars, svars, dvars, file, old_rows, hour, clock, last_values, new_data, cycles>>

\* time.sleep(10), after a batch and after an error
Sleep ==
    /\ gpc = "sleep"
    /\ clock' = clock + Period
    /\ cycles' = cycles + 1
    /\ gpc' = "read"
    /\ UNCHANGED <<avars, cvars, svars, dvars, file, old_rows, hour, last_values, new_data>>

NextGenerator ==
    \/ CleanExistingData
    \/ CreateFile
    \/ GetLastValues
    \/ GenerateData
    \/ VerifyBatch
    \/ WriteBatch
    \/ WriteFails
    \/ Sleep

SpecGenerator == InitGenerator /\ [][NextGenerator]_vars

(***************************************************************************)
(* The generator with every failure a cycle can meet.  The process is      *)
(* scheduled for as long as it has a next statement.                       *)
(***************************************************************************)

\* pd.read_csv raises inside get_last_values: the function prints a warning
\* and returns {}
ReadFails ==
    /\ gpc = "read"
    /\ cycles < MaxCycles
    /\ file.exists
    /\ last_values' = <<>>
    /\ gpc' = "generate"
    /\ UNCHANGED <<avars, cvars, svars, dvars, file, old_rows, hour, clock, new_data, cycles>>

\* generate_data or pd.DataFrame raises: the handler of the main loop prints
\* the error, new_data keeps the batch of the cycle before
GenerateFails ==
    /\ gpc = "generate"
    /\ gpc' = "sleep"
    /\ UNCHANGED <<avars, cvars, svars, dvars, file, old_rows, hour, clock, last_values, new_data, cycles>>

NextGeneratorLive ==
    \/ NextGenerator
    \/ ReadFails
    \/ GenerateFails

\* main passes from one statement to the next: the iterations that are
\* followed apart, its loop has no statement at which it ends
GeneratorPositions == {"clean", "create", "read", "generate", "verify", "write", "sleep"}
Advance ==
    /\ gpc \in GeneratorPositions
    /\ gpc = "read" => cycles < MaxCycles
    /\ gpc' \in GeneratorPositions \ {gpc}

SpecGeneratorLive ==
    InitGenerator /\ [][NextGeneratorLive]_vars /\ WF_gpc(Advance)

(***************************************************************************)
(* Z3-PRODUCE PAGE: ACKNOWLEDGING ALERTS (draw_dashboard)                  *)
(***************************************************************************)

\* most readings of Z3-Produce in the file while the page is open
MaxProduceRows == 3

\* the page's defaults (5.0 .. 10.0, buffer 2.0, "High") and the sensitivity
\* the selectbox can be set to instead
ProduceConfigs ==
    {[temp_min |-> 500, temp_max |-> 1000, warning_buffer |-> 200,
      humidity_min |-> 8000, humidity_max |-> 9500, alert_sensitivity |-> s] :
        s \in {"Medium", "High"}}

\* temperatures of a normal reading, a warning and an alert of that band
ProduceTemps == {700, 1100, 1300}

\* the rows the generator may have appended since the last load: none, or one
\* row stamped with the second of the newest row or with a later one
NewProduceRows(frame) ==
    IF Len(frame) >= MaxProduceRows THEN {<<>>}
    ELSE LET last == IF frame = <<>> THEN 0 ELSE frame[Len(frame)].timestamp
         IN  {<<>>} \cup
             {<<[timestamp |-> ts, zone_id |-> "Z3-Produce",
                 temperature |-> t, humidity |-> 9000]>> :
                 ts \in {x \in {last, last + Period} : x > 0}, t \in ProduceTemps}

\* the session state when the page is opened: lines 12-15, or what a zone page
\* opened before has left
SessionSamples ==
    {[z \in ZoneSet |-> None],
     [z \in ZoneSet |-> IF z = "Z1-Freezer" THEN Period ELSE None]}

\* df_processed[df_processed['timestamp'] > acknowledged_ts] if acknowledged_ts
\* else df_processed
unacknowledged_data_inclusive(frame, acknowledged_ts) ==
    IF acknowledged_ts # None
    THEN SelectSeq(frame, LAMBDA r : r.timestamp >= acknowledged_ts)
    ELSE frame
unacknowledged_data(frame, acknowledged_ts) ==
    IF acknowledged_ts # None
    THEN SelectSeq(frame, LAMBDA r : r.timestamp > acknowledged_ts)
    ELSE frame

\* unacknowledged_data[unacknowledged_data['alert_status'] == 'alert']
ActiveAlerts(frame, acknowledged_ts) ==
    SelectSeq(unacknowledged_data(frame, acknowledged_ts),
              LAMBDA r : r.alert_status = "alert")

\* active_alerts_df['timestamp'].max()
MaxTimestamp(frame) ==
    CHOOSE ts \in {frame[i].timestamp : i \in 1..Len(frame)} :
        \A i \in 1..Len(frame) : frame[i].timestamp <= ts

InitAcknowledge ==
    /\ ScorerIdle
    /\ GeneratorIdle
    /\ page = "Z3-Produce"
    /\ config \in ProduceConfigs
    /\ df = <<>>
    /\ enhanced_df = <<>>
    /\ cpc = "idle"
    /\ acknowledged_alerts \in SessionSamples
    /\ active_alerts_df = <<>>
    /\ apc = "configured"

\* draw_dashboard(placeholder, config) up to the button: the file is read
\* again, an empty frame ends the call
DrawDashboard ==
    /\ apc = "configured"
    /\ \E new \in NewProduceRows(df) :
        LET df_original  == df \o new
            df_processed == apply_custom_alert_logic(page, df_original, config)
            acknowledged_ts == acknowledged_alerts["Z3-Produce"]
        IN  /\ df' = df_original
            /\ enhanced_df' = df_processed
            /\ active_alerts_df' = IF df_original = <<>> THEN <<>>
                                   ELSE ActiveAlerts(df_processed, acknowledged_ts)
    /\ apc' = "drawn"
    /\ UNCHANGED <<page, config, cpc, acknowledged_alerts, svars, dvars, gvars>>

\* the button "Acknowledge & Clear Alerts", shown while active_alert_count > 0,
\* then st.rerun()
Acknowledge ==
    /\ apc = "drawn"
    /\ Len(active_alerts_df) > 0
    /\ acknowledged_alerts' =
        [acknowledged_alerts EXCEPT !["Z3-Produce"] = MaxTimestamp(active_alerts_df)]
    /\ apc' = "configured"
    /\ UNCHANGED <<cvars, active_alerts_df, svars, dvars, gvars>>

\* the refresh timer runs out, or a widget of the sidebar is changed and the
\* script runs again
Rerun ==
    /\ apc = "drawn"
    /\ config' \in ProduceConfigs
    /\ apc' = "configured"
    /\ UNCHANGED <<page, df, enhanced_df, cpc, acknowledged_alerts, active_alerts_df,
                   svars, dvars, gvars>>

NextAcknowledge ==
    \/ DrawDashboard
    \/ Acknowledge
    \/ Rerun

SpecAcknowledge == InitAcknowledge /\ [][NextAcknowledge]_vars

(***************************************************************************)
(* Claims about the classifier                                             *)
(***************************************************************************)

\* the tier of section 4.2 for a temperature t, with the critical threshold
\* at k2/2 buffers beyond the band
TierOf(cfg, t, k2) ==
    LET crit == 2 * t < 2 * cfg.temp_min - k2 * cfg.warning_buffer
                \/ 2 * t > 2 * cfg.temp_max + k2 * cfg.warning_buffer
        alrt == t < cfg.temp_min - cfg.warning_buffer \/ t > cfg.temp_max + cfg.warning_buffer
        warn == t < cfg.temp_min \/ t > cfg.temp_max
    IN  IF crit THEN "critical"
        ELSE IF alrt THEN "alert"
        ELSE IF warn THEN "warning"
        ELSE "normal"

Classified == cpc = "classified" /\ df # <<>>

\* C1 as stated: on every page a classified reading is critical exactly
\* beyond 2 buffers, alert beyond 1 buffer, warning outside the band, normal
\* otherwise, a value on a threshold taking the milder tier.
C1_TiersTwoBuffersEveryPage ==
    Classified =>
        \A i \in 1..Len(enhanced_df) :
            enhanced_df[i].custom_alert_status = TierOf(config, df[i].temperature, 4)

\* C1 amended: as C1 on Overview, Z1-Freezer, Z2-Chiller and Z3-Produce; on
\* the Z4-Pharma page the critical threshold lies 1.5 buffers beyond the band.
C1_TiersPerPage ==
    Classified =>
        \A i \in 1..Len(enhanced_df) :
            enhanced_df[i].custom_alert_status
                = TierOf(config, df[i].temperature, IF page = "Z4-Pharma" THEN 3 ELSE 4)

\* a Z4-Pharma run that classified 0.49 (between 1.5 and 2 buffers below 2.0)
C1_Witness ==
    /\ Classified /\ page = "Z4-Pharma"
    /\ config.temp_min = 200 /\ config.temp_max = 800
    /\ \E i \in 1..Len(enhanced_df) :
          enhanced_df[i].temperature = 49 /\ enhanced_df[i].custom_alert_status = "critical"

\* C2: the alert flag is 'alert' exactly when the tier is in the set of the
\* configured sensitivity (Low: critical; Medium: critical, alert; High and
\* Critical: critical, alert, warning), and 'normal' otherwise.
C2_FlagBySensitivity ==
    (Classified /\ config.alert_sensitivity \in SensitivityLevels) =>
        \A i \in 1..Len(enhanced_df) :
            LET tier == enhanced_df[i].custom_alert_status
                set  == CASE config.alert_sensitivity = "Low" -> {"critical"}
                          [] config.alert_sensitivity = "Medium" -> {"critical", "alert"}
                          [] OTHER -> {"critical", "alert", "warning"}
            IN  /\ enhanced_df[i].alert_status \in {"alert", "normal"}
                /\ enhanced_df[i].alert_status = "alert" <=> tier \in set

\* a High-sensitivity run that flagged a warning-tier reading
C2_Witness ==
    /\ Classified /\ config.alert_sensitivity = "High"
    /\ \E i \in 1..Len(enhanced_df) :
          enhanced_df[i].custom_alert_status = "warning" /\ enhanced_df[i].alert_status = "alert"

\* C7: a configuration with temp_min > temp_max is rejected: the classifier
\* never returns classified readings for it.
C7_InvertedBandRejected ==
    ~(Classified /\ config.temp_min > config.temp_max)

(***************************************************************************)
(* Claims about the scorer                                                 *)
(***************************************************************************)

Scored == spc = "scored" /\ score # <<>>

\* the window the last call of the scorer looked at
ScoredWindow == TailRows(ZoneData(stream, zone_id), WindowSize)

\* C3: for any non-empty window of readings the total_score the scorer returns
\* lies in [0, 100].
C3_TotalScoreInRange ==
    Scored => score[1].total_score >= 0 /\ score[1].total_score <= 100 * 10

\* a full window of fifty steady, fresh, unflagged readings scores 100
C3_Witness ==
    /\ Scored
    /\ Len(ZoneData(stream, zone_id)) > WindowSize
    /\ score[1].total_score = 100 * 10
    /\ score[1].data_quality_score = 20 * 10

\* C8: for a window of exactly one reading the standard deviation and the
\* variance are taken as 0, so the stability band is 40 and the efficiency
\* score is 10.
C8_SingleReadingStdZero ==
    (Scored /\ Len(ScoredWindow) = 1) =>
        /\ score[1].temp_stability = 0
        /\ score[1].temperature_score
              = 10 * stability_score_zero_std(ScoredWindow)
                   * in_range_temps(spage, zone_id, ScoredWindow)
        /\ score[1].efficiency_score = 10 * efficiency_score_zero_var(ScoredWindow)

(***************************************************************************)
(* Claims about the overview page and the cost estimator                   *)
(***************************************************************************)

\* create_performance_dashboard has run
DashboardRan ==
    \/ spage = "overview" /\ spc # "start"
    \/ spage = "Overview" /\ spc = "done"

\* calculate_cost_impact_metrics has run
Costed == spage = "overview" /\ spc \in {"summaries", "done"}

\* C4: excess_maintenance_cost is never negative: it is 0 when total_score is
\* at least 75 and otherwise base * (multiplier * (100 - score) / 100 - 1)
\* floored at 0.
C4_ExcessMaintenanceFloored ==
    Costed =>
        \A z \in DOMAIN cost_analysis.zones :
            LET a == cost_analysis.zones[z]
            IN  /\ a.excess_maintenance_cost >= 0
                /\ a.excess_maintenance_cost
                      = excess_maintenance_cost_floored(stream, a.performance_score)

\* C5: for any input every per-zone and system-total cost quantity (product
\* loss, energy waste, excess maintenance, compliance risk, total monthly
\* cost, potential savings) is non-negative.
C5_CostsNonNegative ==
    Costed =>
        /\ \A z \in DOMAIN cost_analysis.zones :
              LET a == cost_analysis.zones[z]
              IN  /\ a.product_loss_cost >= 0
                  /\ a.energy_waste_cost >= 0
                  /\ a.excess_maintenance_cost >= 0
                  /\ a.compliance_risk_cost >= 0
                  /\ a.total_monthly_cost >= 0
                  /\ a.potential_monthly_savings >= 0
        /\ cost_analysis.system_totals.total_monthly_cost >= 0
        /\ cost_analysis.system_totals.total_potential_savings >= 0

\* C6: a score requested for a zone with zero readings is None, and no caller
\* turns that None into a score of 0: get_zone_summary returns None for the
\* zone, the performance dashboard and the cost estimator leave the zone out.
C6_NoScoreForEmptyZone ==
    \A k \in 1..4 :
        ZoneData(stream, Zones[k]) = <<>> =>
            /\ spc # "idle" =>
                 calculate_zone_performance_score(spage, stream, Zones[k], now) = {<<>>}
            /\ k <= Len(summaries) => summaries[k] = <<>>
            /\ DashboardRan => Zones[k] \notin DOMAIN zone_scores
            /\ Costed => Zones[k] \notin DOMAIN cost_analysis.zones

\* a run of the earlier page over a frame with freezer rows and no produce rows
C6_Witness ==
    /\ spage = "overview" /\ spc = "done"
    /\ ZoneData(stream, "Z3-Produce") = <<>>
    /\ summaries[3] = <<>> /\ summaries[1] # <<>>
    /\ DOMAIN zone_scores # {} /\ "Z3-Produce" \notin DOMAIN zone_scores
    /\ DOMAIN cost_analysis.zones = DOMAIN zone_scores

(***************************************************************************)
(* Claims about the generator                                              *)
(***************************************************************************)

\* a present, finite number
IsNumber(x) == x \notin {NaN, BadText, NanText, None}

\* the rows the generator has appended to the file
AppendedRows == SubSeq(file.rows, old_rows + 1, Len(file.rows))

\* C9: every row the generator hands to the writer and every row it has
\* appended to the file has a present, finite numeric temperature and
\* humidity, whatever the previous content of the file.
C9_NoMissingValueWritten ==
    /\ \A i \in 1..Len(AppendedRows) :
          IsNumber(AppendedRows[i].temperature) /\ IsNumber(AppendedRows[i].humidity)
    /\ \A i \in 1..Len(new_data) :
          IsNumber(new_data[i].temperature) /\ IsNumber(new_data[i].humidity)

\* a batch written after the last freezer value was read back as nan
C9_Witness ==
    /\ gpc = "sleep"
    /\ "Z1-Freezer" \in DOMAIN last_values
    /\ IsNaN(last_values["Z1-Freezer"].temperature)
    /\ Len(AppendedRows) >= 4
    /\ AppendedRows[Len(AppendedRows) - 3] = new_data[1]

\* C10: for every reading generate_data produces the Z1-Freezer temperature
\* lies in [-35, -10], the temperature of every other zone in [-10, 25] and
\* the humidity of every zone in [0, 100].
C10_SafetyBounds ==
    \A i \in 1..Len(new_data) :
        /\ new_data[i].zone_id = "Z1-Freezer" =>
              new_data[i].temperature >= -35 * Scale /\ new_data[i].temperature <= -10 * Scale
        /\ new_data[i].zone_id # "Z1-Freezer" =>
              new_data[i].temperature >= -10 * Scale /\ new_data[i].temperature <= 25 * Scale
        /\ new_data[i].humidity >= 0 /\ new_data[i].humidity <= 100 * Scale

\* a freezer reading held at -10 after a previous reading of -8
C10_Witness ==
    /\ gpc = "verify"
    /\ "Z1-Freezer" \in DOMAIN last_values
    /\ last_values["Z1-Freezer"].temperature = -8 * Scale
    /\ new_data[1].temperature = -10 * Scale

\* new_data was generated from last_values
BatchFromLastValues == gpc \in {"verify", "write", "sleep"}

\* C11: when a previous reading exists for a zone, the next reading generated
\* for that zone differs from it by at most the maximum drift: at most 1.0 in
\* temperature and at most 3.0 in humidity.
C11_DriftBounded ==
    BatchFromLastValues =>
        \A i \in 1..Len(new_data) :
            new_data[i].zone_id \in DOMAIN last_values =>
                LET prev == last_values[new_data[i].zone_id]
                IN  /\ IsNumber(prev.temperature) =>
                          Abs(new_data[i].temperature - prev.temperature) <= MAX_TEMP_DRIFT
                    /\ IsNumber(prev.humidity) =>
                          Abs(new_data[i].humidity - prev.humidity) <= MAX_HUMIDITY_DRIFT

(***************************************************************************)
(* Relations between runs of the classifier                                *)
(***************************************************************************)

\* the alert flag of row i of df under the configuration of the run with its
\* sensitivity replaced
FlagUnder(i, sensitivity) ==
    ClassifyRow(page, [config EXCEPT !.alert_sensitivity = sensitivity], df[i]).alert_status

\* C12: for a fixed reading and fixed thresholds the alert flag is monotone in
\* the sensitivity: flagged under Low implies flagged under Medium, flagged
\* under Medium implies flagged under High and under Critical.
C12_FlagMonotoneInSensitivity ==
    Classified =>
        \A i \in 1..Len(df) :
            /\ enhanced_df[i].alert_status = FlagUnder(i, config.alert_sensitivity)
            /\ FlagUnder(i, "Low") = "alert" => FlagUnder(i, "Medium") = "alert"
            /\ FlagUnder(i, "Medium") = "alert" =>
                  FlagUnder(i, "High") = "alert" /\ FlagUnder(i, "Critical") = "alert"

\* a reading flagged under Low, and one flagged under High and not under Medium
C12_Witness ==
    /\ Classified
    /\ \E i \in 1..Len(df) :
          /\ config.alert_sensitivity = "Low"
          /\ enhanced_df[i].alert_status = "alert"
    /\ \E i \in 1..Len(df) :
          FlagUnder(i, "High") = "alert" /\ FlagUnder(i, "Medium") = "normal"

TierRank(tier) ==
    CASE tier = "normal" -> 0
      [] tier = "warning" -> 1
      [] tier = "alert" -> 2
      [] tier = "critical" -> 3

\* C13: for a config with temp_min <= temp_max and warning_buffer >= 0, of two
\* temperatures on the same side of the band the one farther from the nearest
\* bound never gets a lower tier (normal < warning < alert < critical).
C13_SeverityMonotoneInDistance ==
    (Classified /\ config.temp_min <= config.temp_max /\ config.warning_buffer >= 0) =>
        \A i, j \in 1..Len(df) :
            (\/ df[j].temperature <= df[i].temperature /\ df[i].temperature < config.temp_min
             \/ df[j].temperature >= df[i].temperature /\ df[i].temperature > config.temp_max)
                => TierRank(enhanced_df[j].custom_alert_status)
                      >= TierRank(enhanced_df[i].custom_alert_status)

\* a warning and, farther out on the same side, a critical reading
C13_Witness ==
    /\ Classified /\ config.temp_min <= config.temp_max
    /\ \E i, j \in 1..Len(df) :
          /\ df[j].temperature < df[i].temperature /\ df[i].temperature < config.temp_min
          /\ enhanced_df[i].custom_alert_status = "warning"
          /\ enhanced_df[j].custom_alert_status = "critical"

\* humidities and humidity ranges a reading is reclassified with
OtherHumidities == {NaN, 0, 9900}
OtherHumidityRanges == {<<0, 0>>, <<9000, 10000>>}

\* C14: humidity does not influence classification: readings with the same
\* temperature and different or missing humidity get, under configs that
\* differ only in humidity_min and humidity_max, the same tier and flag.
C14_HumidityIgnored ==
    Classified =>
        \A i \in 1..Len(df) :
            /\ \A h \in OtherHumidities, r \in OtherHumidityRanges :
                  LET other == ClassifyRow(page,
                                  [config EXCEPT !.humidity_min = r[1], !.humidity_max = r[2]],
                                  [df[i] EXCEPT !.humidity = h])
                  IN  /\ other.custom_alert_status = enhanced_df[i].custom_alert_status
                      /\ other.alert_status = enhanced_df[i].alert_status
            /\ \A j \in 1..Len(df) :
                  df[i].temperature = df[j].temperature =>
                      /\ enhanced_df[i].custom_alert_status = enhanced_df[j].custom_alert_status
                      /\ enhanced_df[i].alert_status = enhanced_df[j].alert_status

\* two readings of one temperature, one without humidity, in one tier
C14_Witness ==
    /\ Classified
    /\ \E i, j \in 1..Len(df) :
          /\ df[i].temperature = df[j].temperature
          /\ IsNaN(df[i].humidity) /\ ~IsNaN(df[j].humidity)
          /\ enhanced_df[i].custom_alert_status = "warning"
          /\ enhanced_df[j].custom_alert_status = "warning"

(***************************************************************************)
(* Claims about the parts of the score                                     *)
(***************************************************************************)

SubScoreSumNum(pg, zone, w, t) ==
    temp_score_num(pg, zone, w) + alert_score(w) * Len(w)
        + data_quality_num(w, t) + efficiency_score(w) * Len(w)

\* C16: for every non-empty window the sub-scores stay within their ranges
\* (temperature_score in [0, 40], alert_score in [0, 30], data_quality_score in
\* [0, 20], efficiency_score in [0, 10]) and total_score equals their sum: the
\* clamp to [0, 100] does not change the value.
C16_SubScoresInRangeAndAdditive ==
    Scored =>
        LET w == ScoredWindow
            n == Len(w)
        IN  /\ temp_score_num(spage, zone_id, w) >= 0
            /\ temp_score_num(spage, zone_id, w) <= 40 * n
            /\ alert_score(w) >= 0 /\ alert_score(w) <= 30
            /\ data_quality_num(w, now) >= 0 /\ data_quality_num(w, now) <= 20 * n
            /\ efficiency_score(w) >= 0 /\ efficiency_score(w) <= 10
            /\ total_score_num(spage, zone_id, w, now) = SubScoreSumNum(spage, zone_id, w, now)
            /\ score[1].temperature_score \in 0..(40 * 10)
            /\ score[1].alert_score \in 0..(30 * 10)
            /\ score[1].data_quality_score \in 0..(20 * 10)
            /\ score[1].efficiency_score \in 0..(10 * 10)
            /\ score[1].total_score \in RoundDiv(10 * SubScoreSumNum(spage, zone_id, w, now), n)

\* a window with a fractional temperature score and a missing-data penalty
\* larger than the freshness bonus
C16_Witness ==
    /\ Scored
    /\ score[1].temperature_score % 10 # 0
    /\ score[1].data_quality_score < 20 * 10
    /\ score[1].total_score < 100 * 10

\* the stability band of a standard deviation given by n * (n - 1) * Scale^2
\* times its square; the standard deviation of one reading is undefined and
\* falls under `otherwise'
StabilityBand(w) ==
    LET n == Len(w)
        v == VarNum(w)
        unit == Scale * Scale * n * (n - 1)
    IN  IF n > 1 /\ 4 * v <= unit THEN 40
        ELSE IF n > 1 /\ v <= unit THEN 35
        ELSE IF n > 1 /\ v <= 4 * unit THEN 25
        ELSE 15

\* the band the page classified the zone's readings with; the earlier page
\* has no classifier and only its own table of ranges
ClassifierBand(pg, zone) ==
    IF pg = "Overview"
    THEN <<setup_threshold_configuration(zone).temp_min,
           setup_threshold_configuration(zone).temp_max>>
    ELSE zone_ranges(pg, zone)

\* readings of the window inside the band, bounds included
InBand(w, band) ==
    Cardinality({i \in 1..Len(w) : w[i].temperature >= band[1] /\ w[i].temperature <= band[2]})

\* C17: the temperature score of a window equals the stability band of its
\* standard deviation (40 if <= 0.5, 35 if <= 1.0, 25 if <= 2.0, 15 otherwise)
\* times the fraction of its readings inside [temp_min, temp_max], bounds
\* included, and this band is the one the classifier used for the zone.
C17_TemperatureScore ==
    Scored =>
        LET w == ScoredWindow
            band == ClassifierBand(spage, zone_id)
        IN  /\ zone_ranges(spage, zone_id) = band
            /\ temp_score_num(spage, zone_id, w) = StabilityBand(w) * InBand(w, band)
            /\ score[1].temperature_score
                  \in RoundDiv(10 * StabilityBand(w) * InBand(w, band), Len(w))
            /\ score[1].temp_compliance \in RoundDiv(1000 * InBand(w, band), Len(w))

\* a window of the page with a classifier, part of it outside the band, with a
\* standard deviation between 0.5 and 1.0
C17_Witness ==
    /\ Scored /\ spage = "Overview" /\ zone_id = "Z1-Freezer"
    /\ StabilityBand(ScoredWindow) = 35
    /\ InBand(ScoredWindow, ClassifierBand(spage, zone_id)) \in 1..(Len(ScoredWindow) - 1)
    /\ score[1].temperature_score \in 1..349

\* readings of the window flagged 'alert'
Flagged(w) == Cardinality({i \in 1..Len(w) : w[i].alert_status = "alert"})

\* the alert rate, Flagged(w) / Len(w) in percent, is at most p
RateAtMost(w, p) == 100 * Flagged(w) <= p * Len(w)

\* C18: the alert score of a window is 30 if its alert rate is 0, 25 if the
\* rate is at most 5 percent, 15 if at most 15, 8 if at most 30, and 2
\* otherwise; a rate on a boundary falls in the higher-scoring step.
C18_AlertScoreSteps ==
    Scored =>
        LET w == ScoredWindow
        IN  /\ Flagged(w) = 0 => score[1].alert_score = 30 * 10
            /\ (Flagged(w) > 0 /\ RateAtMost(w, 5)) => score[1].alert_score = 25 * 10
            /\ (~RateAtMost(w, 5) /\ RateAtMost(w, 15)) => score[1].alert_score = 15 * 10
            /\ (~RateAtMost(w, 15) /\ RateAtMost(w, 30)) => score[1].alert_score = 8 * 10
            /\ ~RateAtMost(w, 30) => score[1].alert_score = 2 * 10
            /\ score[1].alert_rate \in RoundDiv(1000 * Flagged(w), Len(w))

\* a window with an alert rate of exactly 30 percent
C18_Witness ==
    /\ Scored
    /\ 100 * Flagged(ScoredWindow) = 30 * Len(ScoredWindow)
    /\ score[1].alert_score = 8 * 10
    /\ score[1].alert_rate = 300

\* readings of the window without a humidity
Missing(w) == Cardinality({i \in 1..Len(w) : IsNaN(w[i].humidity)})

\* Len(w) * min(fraction of readings without humidity * 20, 10)
MissingPenaltyNum(w) ==
    IF 20 * Missing(w) <= 10 * Len(w) THEN 20 * Missing(w) ELSE 10 * Len(w)

\* the freshness bonus of a latest reading that is `age' seconds old
FreshnessBonus(age) ==
    IF age <= 5 * 60 THEN 10
    ELSE IF age <= 30 * 60 THEN 7
    ELSE IF age <= 60 * 60 THEN 4
    ELSE 1

\* x clamped to [lo, hi]
Clamped(x, lo, hi) == IF x < lo THEN lo ELSE IF x > hi THEN hi ELSE x

\* C19: the data-quality score of a window equals 20 - missing_penalty +
\* freshness_bonus clamped to [0, 20], with missing_penalty = min(fraction of
\* readings with missing humidity * 20, 10) and freshness_bonus 10 if the
\* latest reading is at most 5 minutes old at the evaluation instant, 7 if at
\* most 30, 4 if at most 60, and 1 otherwise.
C19_DataQualityScore ==
    Scored =>
        LET w == ScoredWindow
            n == Len(w)
            age == now - w[n].timestamp
            expected == Clamped(20 * n - MissingPenaltyNum(w) + FreshnessBonus(age) * n,
                                0, 20 * n)
        IN  /\ data_quality_num(w, now) = expected
            /\ score[1].data_quality_score \in RoundDiv(10 * expected, n)
            /\ score[1].data_freshness_minutes \in RoundDiv(10 * age, 60)

\* half of the window without humidity, the latest reading exactly 30 minutes
\* old: 20 - 10 + 7
C19_Witness ==
    /\ Scored
    /\ 2 * Missing(ScoredWindow) = Len(ScoredWindow)
    /\ now - ScoredWindow[Len(ScoredWindow)].timestamp = 30 * 60
    /\ score[1].data_quality_score = 17 * 10
    /\ score[1].data_freshness_minutes = 30 * 10

\* the timestamp of the first of the zone's last WindowSize readings, 0 when
\* the zone has no more readings than that
OlderCutoff(frame, zone) ==
    LET zone_rows == SelectSeq(frame, LAMBDA r : r.zone_id = zone)
    IN  IF Len(zone_rows) > WindowSize
        THEN zone_rows[Len(zone_rows) - WindowSize + 1].timestamp
        ELSE 0

\* a reading with other values in place of r
Changed(r) ==
    [r EXCEPT !.temperature = r.temperature + 300, !.humidity = NaN,
              !.alert_status = IF r.alert_status = "alert" THEN "normal" ELSE "alert"]

\* the frames that differ from the frame in readings of the zone older than its
\* last WindowSize ones, or in readings of other zones
FrameVariants(frame, zone) ==
    LET cutoff == OlderCutoff(frame, zone)
        IsOlder(r) == r.zone_id = zone /\ r.timestamp < cutoff
    IN  {SelectSeq(frame, LAMBDA r : ~IsOlder(r)),
         [i \in 1..Len(frame) |->
            IF IsOlder(frame[i]) THEN Changed(frame[i]) ELSE frame[i]],
         SelectSeq(frame, LAMBDA r : r.zone_id = zone),
         [i \in 1..Len(frame) |->
            IF frame[i].zone_id # zone THEN Changed(frame[i]) ELSE frame[i]],
         Append(frame, [timestamp |-> Period * (Len(frame) + 1),
                        zone_id |-> IF zone = "Z3-Produce" THEN "Z4-Pharma" ELSE "Z3-Produce",
                        temperature |-> 700, humidity |-> 8500, alert_status |-> "alert"])}
            \cup (IF cutoff > 0 \/ Len(SelectSeq(frame, LAMBDA r : r.zone_id = zone)) = WindowSize
                  THEN {<<[timestamp |-> 0, zone_id |-> zone, temperature |-> -1700,
                           humidity |-> NaN, alert_status |-> "alert"]>> \o frame}
                  ELSE {})

\* C20: a zone's ZoneScore depends only on the last 50 readings of the zone in
\* stream order: adding, removing or changing readings of the zone older than
\* its last 50, or readings of other zones, leaves every field unchanged.
C20_ScoreDependsOnWindowOnly ==
    Scored =>
        LET scores == calculate_zone_performance_score(spage, stream, zone_id, now)
        IN  /\ score \in scores
            /\ \A other \in FrameVariants(stream, zone_id) :
                  calculate_zone_performance_score(spage, other, zone_id, now) = scores

\* a scored zone with more than 50 readings in a stream that also holds a
\* reading of another zone
C20_Witness ==
    /\ Scored
    /\ Len(ZoneData(stream, zone_id)) > WindowSize
    /\ \E i \in 1..Len(stream) : stream[i].zone_id # zone_id
    /\ \E other \in FrameVariants(stream, zone_id) :
          Len(ZoneData(other, zone_id)) = WindowSize

(***************************************************************************)
(* Claims about the system totals of the cost estimator                    *)
(***************************************************************************)

\* the value of a field of the analysis of a zone, nothing for a zone without one
FieldOf(zone, field) ==
    IF zone \in DOMAIN cost_analysis.zones THEN cost_analysis.zones[zone][field] ELSE 0

\* the field added up over the four zones
TotalOf(field) ==
    FieldOf("Z1-Freezer", field) + FieldOf("Z2-Chiller", field)
        + FieldOf("Z3-Produce", field) + FieldOf("Z4-Pharma", field)

\* C21: the system totals of the cost estimator are the sums of the per-zone
\* total_monthly_cost and potential_monthly_savings over exactly the zones
\* with at least one reading (a zone without readings has no entry), and
\* roi_percentage = total savings / max(total cost, 1) * 100.
C21_SystemTotals ==
    Costed =>
        LET totals == cost_analysis.system_totals
            dollar == MoneyUnit(stream)
        IN  /\ DOMAIN cost_analysis.zones = {z \in ZoneSet : ZoneData(stream, z) # <<>>}
            /\ totals.total_monthly_cost = TotalOf("total_monthly_cost")
            /\ totals.total_potential_savings = TotalOf("potential_monthly_savings")
            /\ totals.roi_percentage[1] = TotalOf("potential_monthly_savings")
            /\ totals.roi_percentage[2]
                  = (IF TotalOf("total_monthly_cost") > dollar
                     THEN TotalOf("total_monthly_cost") ELSE dollar)

\* two zones with readings and costs, two zones without readings
C21_Witness ==
    /\ Costed
    /\ Cardinality(DOMAIN cost_analysis.zones) = 2
    /\ \A z \in DOMAIN cost_analysis.zones : cost_analysis.zones[z].total_monthly_cost > 0
    /\ cost_analysis.system_totals.roi_percentage[2] > MoneyUnit(stream)

(***************************************************************************)
(* Claims about the values the generator draws                             *)
(***************************************************************************)

\* the draws the batch new_data can have been generated under
DrawsOfBatch ==
    {d \in DrawSamples :
        new_data = generate_data(last_values, hour, clock, d.before, d.td, d.hd)}

\* v lies between 0.1 and 3.0 below low or between 0.1 and 3.0 above high
LandsBeyond(v, low, high) ==
    \/ low - v >= 10 /\ low - v <= 300
    \/ v - high >= 10 /\ v - high <= 300

\* C22: whenever generate_realistic_value takes the simulated-violation branch
\* for a value, the value it returns lies outside the optimal range, between
\* 0.1 and 3.0 below the range minimum or between 0.1 and 3.0 above the range
\* maximum.
C22_ViolationLandsOutside ==
    BatchFromLastValues =>
        \A d \in DrawsOfBatch : \A zone \in DOMAIN last_values :
            LET ranges == ZONE_RANGES(zone)
            IN  /\ d.td.violation # "none" =>
                      LandsBeyond(generate_realistic_value(last_values[zone].temperature,
                                      ranges.temp_min, ranges.temp_max, MAX_TEMP_DRIFT, d.td),
                                  ranges.temp_min, ranges.temp_max)
                /\ d.hd.violation # "none" =>
                      LandsBeyond(generate_realistic_value(last_values[zone].humidity,
                                      ranges.humidity_min, ranges.humidity_max,
                                      MAX_HUMIDITY_DRIFT, d.hd),
                                  ranges.humidity_min, ranges.humidity_max)

\* the data points of the batch for zones without a previous reading
FirstReadings ==
    {i \in 1..Len(new_data) : new_data[i].zone_id \notin DOMAIN last_values}

\* C23 as stated: when no previous reading exists for a zone, the first reading
\* generated for it has its temperature inside [temp_min, temp_max] and its
\* humidity inside [humidity_min, humidity_max], at every hour of the day.
C23_FirstReadingInRange ==
    BatchFromLastValues =>
        \A i \in FirstReadings :
            LET ranges == ZONE_RANGES(new_data[i].zone_id)
            IN  /\ new_data[i].temperature >= ranges.temp_min
                /\ new_data[i].temperature <= ranges.temp_max
                /\ new_data[i].humidity >= ranges.humidity_min
                /\ new_data[i].humidity <= ranges.humidity_max

\* C23: when no previous reading exists for a zone, the first reading generated
\* for it has its humidity inside [humidity_min, humidity_max] and its
\* temperature within the daily swing of 0.3 of [temp_min, temp_max]: not below
\* temp_min before noon and not above temp_max from noon on, and inside the
\* range at hour 0.
C23_FirstReadingNearRange ==
    BatchFromLastValues =>
        \A i \in FirstReadings :
            LET ranges == ZONE_RANGES(new_data[i].zone_id)
            IN  /\ new_data[i].temperature >= ranges.temp_min - (IF hour < 12 THEN 0 ELSE 30)
                /\ new_data[i].temperature <= ranges.temp_max + (IF hour < 12 THEN 30 ELSE 0)
                /\ hour = 0 => /\ new_data[i].temperature >= ranges.temp_min
                               /\ new_data[i].temperature <= ranges.temp_max
                /\ new_data[i].humidity >= ranges.humidity_min
                /\ new_data[i].humidity <= ranges.humidity_max

\* at hour 6 a first reading drawn at the top of the range is 0.3 above it
C23_Witness ==
    /\ BatchFromLastValues /\ hour = 6
    /\ \E i \in FirstReadings :
          /\ new_data[i].temperature = ZONE_RANGES(new_data[i].zone_id).temp_max + 30
          /\ new_data[i].humidity = ZONE_RANGES(new_data[i].zone_id).humidity_min

(***************************************************************************)
(* Claims about the order of the readings of a window                      *)
(***************************************************************************)

\* the readings are in non-decreasing timestamp order
InTimestampOrder(w) ==
    \A i \in 1..(Len(w) - 1) : w[i].timestamp <= w[i + 1].timestamp

\* C24: scoring a window whose readings are not in non-decreasing timestamp
\* order fails with a non-monotonic-stream error: no score is returned for it.
C24_UnorderedWindowRejected ==
    (spc \in {"scored", "rescored"} /\ ~InTimestampOrder(ScoredWindow)) => score = <<>>

(***************************************************************************)
(* Claims about the main loop of the generator                             *)
(***************************************************************************)

\* the main loop is running
InMainLoop == gpc \in {"read", "generate", "verify", "write", "sleep"}

\* C25: once the main loop is running the stream is append-only: in every step
\* the previous rows of the file are a prefix of the new rows, and a step that
\* writes adds exactly one row for each of the four zones, all four with the
\* same timestamp.
C25_AppendOnlyBatches ==
    [][ InMainLoop =>
          /\ Len(file'.rows) >= Len(file.rows)
          /\ SubSeq(file'.rows, 1, Len(file.rows)) = file.rows
          /\ file'.rows # file.rows =>
                /\ Len(file'.rows) = Len(file.rows) + 4
                /\ \A k \in 1..4 :
                      /\ file'.rows[Len(file.rows) + k].zone_id = Zones[k]
                      /\ file'.rows[Len(file.rows) + k].timestamp
                            = file'.rows[Len(file.rows) + 1].timestamp ]_vars

(***************************************************************************)
(* Claims about the effects of a classification                            *)
(***************************************************************************)

\* C26: classification has no side effects: apply_custom_alert_logic leaves
\* its input frame and the config unchanged and returns the same readings in
\* the same order with timestamp, zone_id, temperature and humidity unchanged;
\* only custom_alert_status and alert_status are set, and an empty input is
\* returned unchanged.
C26_ClassificationPure ==
    [][ (cpc = "loaded" /\ cpc' = "classified") =>
          /\ df' = df /\ config' = config
          /\ Len(enhanced_df') = Len(df)
          /\ \A i \in 1..Len(df) :
                /\ DOMAIN enhanced_df'[i] = DOMAIN df[i] \cup {"custom_alert_status", "alert_status"}
                /\ \A field \in DOMAIN df[i] : enhanced_df'[i][field] = df[i][field]
                /\ enhanced_df'[i].custom_alert_status \in {"normal", "warning", "alert", "critical"}
                /\ enhanced_df'[i].alert_status \in {"normal", "alert"}
          /\ df = <<>> => enhanced_df' = df ]_vars

\* a classified frame of two readings, one of them without humidity, in
\* different tiers
C26_Witness ==
    /\ cpc = "classified" /\ Len(df) = 2 /\ Len(enhanced_df) = 2
    /\ IsNaN(enhanced_df[1].humidity) /\ ~IsNaN(enhanced_df[2].humidity)
    /\ enhanced_df[1].custom_alert_status = "critical"
    /\ enhanced_df[2].custom_alert_status = "normal"

(***************************************************************************)
(* Consequences of the scoring formulas                                    *)
(***************************************************************************)

\* the age in seconds of the last reading of the scored window
ScoredAge == now - ScoredWindow[Len(ScoredWindow)].timestamp

\* C27: for every non-empty window the data_quality_score is at least 11, and
\* it is exactly 20 whenever the missing-humidity penalty does not exceed the
\* freshness bonus; when no humidity is missing it is 20 however old the
\* latest reading is.
C27_DataQualityFloor ==
    Scored =>
        LET w == ScoredWindow
        IN  /\ score[1].data_quality_score >= 11 * 10
            /\ score[1].data_quality_score <= 20 * 10
            /\ MissingPenaltyNum(w) <= FreshnessBonus(ScoredAge) * Len(w)
                  => score[1].data_quality_score = 20 * 10
            /\ Missing(w) = 0 => score[1].data_quality_score = 20 * 10

\* a window with every humidity present whose latest reading is more than an
\* hour old
C27_Witness ==
    /\ Scored
    /\ Len(ScoredWindow) > 1 /\ Missing(ScoredWindow) = 0
    /\ ScoredAge > 60 * 60
    /\ score[1].data_quality_score = 20 * 10
    /\ score[1].data_freshness_minutes > 60 * 10

\* C28: on the Overview page, where each zone is classified with its default
\* config and scored against the same band, every reading flagged 'alert'
\* lies outside the zone's optimal band; so for every window alert_rate +
\* temp_compliance <= 100, and a window with 100% temperature compliance has
\* alert rate 0 and alert_score 30.
C28_AlertsOutsideBand ==
    (Scored /\ spage = "Overview") =>
        LET w == ScoredWindow
            band == zone_ranges(spage, zone_id)
        IN  /\ \A i \in 1..Len(w) :
                  w[i].alert_status = "alert" =>
                      w[i].temperature < band[1] \/ w[i].temperature > band[2]
            /\ Flagged(w) + InBand(w, band) <= Len(w)
            /\ score[1].alert_rate + score[1].temp_compliance <= 100 * 10
            /\ score[1].temp_compliance = 100 * 10 =>
                  score[1].alert_rate = 0 /\ score[1].alert_score = 30 * 10

\* a scored window with a flagged reading, a reading outside the band that is
\* not flagged and a reading in the band
C28_Witness ==
    /\ Scored /\ spage = "Overview"
    /\ Flagged(ScoredWindow) = 1
    /\ InBand(ScoredWindow, zone_ranges(spage, zone_id)) = 1
    /\ Len(ScoredWindow) = 3
    /\ score[1].alert_rate + score[1].temp_compliance < 100 * 10

(***************************************************************************)
(* Claims about the Z3-Produce page                                        *)
(***************************************************************************)

\* the flagged readings of the drawn frame later than timestamp ts
FlaggedAfter(ts) ==
    {i \in 1..Len(enhanced_df) :
        enhanced_df[i].alert_status = "alert" /\ enhanced_df[i].timestamp > ts}

\* the flagged readings of the drawn frame
FlaggedRows == {i \in 1..Len(enhanced_df) : enhanced_df[i].alert_status = "alert"}

\* the readings of the drawn frame that count as active alerts
ActiveRows ==
    IF acknowledged_alerts["Z3-Produce"] = None THEN FlaggedRows
    ELSE FlaggedAfter(acknowledged_alerts["Z3-Produce"])

FreshInRange(i) ==
    LET ranges == ZONE_RANGES(Zones[i])
        drawn  == 100 * new_data[i].temperature - daily_variation(hour)
    IN  /\ drawn >= 100 * ranges.temp_min - 50
        /\ drawn <= 100 * ranges.temp_max + 50
        /\ new_data[i].humidity >= ranges.humidity_min
        /\ new_data[i].humidity <= ranges.humidity_max

\* the read of the previous values failed in this cycle
ReadFailed == last_values = <<>> /\ get_last_values(file) # <<>>

\* C30: no failure inside a cycle stops the generator: after an exception
\* while reading, generating or writing the loop waits and starts the next
\* cycle, so the loop is never left and every cycle that is followed is
\* reached, one after the other; a batch generated after
\* a failed read of the previous values starts from fresh in-range draws;
\* unless generating raises, a cycle hands a batch of four data points to the
\* write, and the write either appends the whole batch or, when it raises,
\* leaves the file as it is
C30_GeneratorNeverStops ==
    /\ <>(gpc = "read" /\ cycles = MaxCycles)
    /\ [][ /\ InMainLoop => InMainLoop'
           /\ (gpc' = "verify" /\ ReadFailed') => \A i \in 1..4 : FreshInRange(i)'
           /\ gpc = "read" => gpc' = "generate"
           /\ gpc = "generate" =>
                \/ gpc' = "verify" /\ Len(new_data') = 4
                \/ gpc' = "sleep" /\ new_data' = new_data
           /\ gpc = "verify" => gpc' = "write"
           /\ gpc = "write" =>
                /\ gpc' = "sleep"
                /\ file' = file \/ file'.rows = file.rows \o new_data
           /\ gpc = "sleep" =>
                (gpc' = "read" /\ clock' = clock + Period /\ cycles' = cycles + 1)
           /\ gpc # "write" /\ InMainLoop => file' = file
         ]_vars

\* the first cycle has failed and appended nothing; the loop has gone on to
\* the second cycle, in which the read of the previous values has failed and
\* the batch has been generated all the same
C30_Witness ==
    /\ gpc = "verify"
    /\ cycles = 1
    /\ ReadFailed
    /\ Len(new_data) = 4
    /\ Len(file.rows) = old_rows
    /\ old_rows > 0

====
